---------------------------- MODULE Spec2Model ----------------------------
(***************************************************************************)
(* Model of contrib/tee_adaptive_selector/                                 *)
(* execute_sql_queries_enhanced_with_analyze.py: the EnhancedPostgreSQL-   *)
(* Executor (connection, the three dispatch modes, the plan decoder and    *)
(* summarizer, the round loop, save_results) and main().                   *)
(*                                                                         *)
(* Python values are tagged tuples <<kind, payload>>, so that values of    *)
(* different Python types can be compared: None, bool, int, str, list and  *)
(* dict (a function from key strings to values).  Times are integers in    *)
(* microseconds; a plan document's "Execution Time" is in milliseconds.    *)
(* The "timestamp" entry of a result (datetime.now().isoformat()) and the  *)
(* exception text after "Failed to summarize plan" are left out.           *)
(***************************************************************************)
EXTENDS Integers, Sequences, FiniteSets, TLC

(***************************************************************************)
(* Bounds of the model.                                                    *)
(***************************************************************************)
MaxFiles == 3
MaxRounds == 2
MaxDepth == 1
\* The longest option mapping given to the constructor.
MaxOptions == 3
\* The most spaces put before and after a text given to map_scenario.
MaxPad == 1
\* The most calls of connect() a caller of the executor makes.
MaxConnects == 1

(***************************************************************************)
(* Python values.                                                          *)
(***************************************************************************)
PyNone == <<"None">>
PyBool(b) == <<"bool", b>>
PyInt(n) == <<"int", n>>
PyStr(s) == <<"str", s>>
PyList(s) == <<"list", s>>
PyDict(f) == <<"dict", f>>
EmptyDict == <<>>

Kind(v) == v[1]
Val(v) == v[2]
IsDict(v) == Kind(v) = "dict"
IsList(v) == Kind(v) = "list"

\* An exception travelling up the call stack instead of a value.
Raised(e) == <<"raise", e>>
IsRaised(v) == Kind(v) = "raise"

\* Python truthiness of a value (bool(v)).
Truthy(v) ==
    CASE Kind(v) = "None" -> FALSE
      [] Kind(v) = "bool" -> Val(v)
      [] Kind(v) = "int" -> Val(v) # 0
      [] Kind(v) = "str" -> Val(v) # ""
      [] Kind(v) = "list" -> Len(Val(v)) > 0
      [] Kind(v) = "dict" -> DOMAIN Val(v) # {}
      [] OTHER -> TRUE

\* isinstance(v, (int, float)): bool is a subclass of int.
IsNumber(v) == Kind(v) \in {"int", "bool"}

\* int(v) of a number.
IntOf(v) == IF Kind(v) = "bool" THEN (IF Val(v) THEN 1 ELSE 0) ELSE Val(v)

\* d.get(k) and d.get(k, default) on a dict payload.
Get(d, k) == IF k \in DOMAIN d THEN d[k] ELSE PyNone
GetOr(d, k, default) == IF k \in DOMAIN d THEN d[k] ELSE default

\* d[k] = v on a dict payload.
DictSet(d, k, v) == (k :> v) @@ d

\* The items a for loop visits in `v.get("Plans", []) or []`: a falsy value
\* gives no item, a list its elements, a string its characters and a dict its
\* keys (strings both, shown as one str item), a number is not iterable.
IterItems(v) ==
    IF ~Truthy(v) THEN PyList(<<>>)
    ELSE CASE Kind(v) = "list" -> v
           [] Kind(v) = "str" -> PyList(<<v>>)
           [] Kind(v) = "dict" -> PyList(<<PyStr("key")>>)
           [] OTHER -> Raised("TypeError")

(***************************************************************************)
(* The plan summarizer and the plan tree extractor.                        *)
(***************************************************************************)
BufferKeys ==
    << "Shared Hit Blocks", "Shared Read Blocks", "Shared Dirtied Blocks",
       "Shared Written Blocks", "Local Hit Blocks", "Local Read Blocks",
       "Local Dirtied Blocks", "Local Written Blocks", "Temp Read Blocks",
       "Temp Written Blocks" >>

BufferKeySet == {BufferKeys[j] : j \in 1..Len(BufferKeys)}

RECURSIVE AddCounters(_, _, _)
\* The loop `for k in keys` of collect_buffers, from key number j on.
AddCounters(p, agg, j) ==
    IF j > Len(BufferKeys) THEN agg
    ELSE LET k == BufferKeys[j]
         IN  IF k \in DOMAIN p /\ IsNumber(p[k])
             THEN AddCounters(p, DictSet(agg, k,
                      PyInt(IntOf(GetOr(agg, k, PyInt(0))) + IntOf(p[k]))), j + 1)
             ELSE AddCounters(p, agg, j + 1)

RECURSIVE collect_buffers(_, _)
RECURSIVE CollectChildren(_, _, _)
\* The loop over the children of collect_buffers, from child number j on.
CollectChildren(items, agg, j) ==
    IF j > Len(items) THEN PyDict(agg)
    ELSE IF IsDict(items[j])
         THEN LET a == collect_buffers(Val(items[j]), agg)
              IN  IF IsRaised(a) THEN a ELSE CollectChildren(items, Val(a), j + 1)
         ELSE CollectChildren(items, agg, j + 1)

\* collect_buffers(p, agg): agg with the counters of p and of the nodes below
\* it (through "Plans") added, or the exception raised on the way.
collect_buffers(p, agg) ==
    LET own == AddCounters(p, agg, 1)
        items == IterItems(GetOr(p, "Plans", PyList(<<>>)))
    IN  IF IsRaised(items) THEN items ELSE CollectChildren(Val(items), own, 1)

\* The plain fields of a decoded node: <<field of the tree, key of the document>>.
TreeFields ==
    << <<"node_type", "Node Type">>,
       <<"parent_relationship", "Parent Relationship">>,
       <<"strategy", "Strategy">>,
       <<"join_type", "Join Type">>,
       <<"parallel_aware", "Parallel Aware">>,
       <<"async_capable", "Async Capable">>,
       <<"relation", "Relation Name">>,
       <<"schema", "Schema">>,
       <<"alias", "Alias">>,
       <<"index_name", "Index Name">>,
       <<"startup_cost", "Startup Cost">>,
       <<"total_cost", "Total Cost">>,
       <<"plan_rows", "Plan Rows">>,
       <<"plan_width", "Plan Width">>,
       <<"actual_startup_time_ms", "Actual Startup Time">>,
       <<"actual_total_time_ms", "Actual Total Time">>,
       <<"actual_rows", "Actual Rows">>,
       <<"actual_loops", "Actual Loops">>,
       <<"output", "Output">>,
       <<"filter", "Filter">>,
       <<"index_cond", "Index Cond">>,
       <<"recheck_cond", "Recheck Cond">>,
       <<"hash_cond", "Hash Cond">>,
       <<"join_filter", "Join Filter">>,
       <<"merge_cond", "Merge Cond">>,
       <<"sort_key", "Sort Key">>,
       <<"group_key", "Group Key">>,
       <<"hash_key", "Hash Key">>,
       <<"exact_heap_tuples", "Exact Heap Tuples">>,
       <<"workers_planned", "Workers Planned">>,
       <<"workers_launched", "Workers Launched">> >>

TreeFieldNames == {TreeFields[j][1] : j \in 1..Len(TreeFields)}
DocKeyOf(f) == TreeFields[CHOOSE j \in 1..Len(TreeFields) : TreeFields[j][1] = f][2]

RECURSIVE PairsToDict(_, _, _)
\* dict(pairs) for a list of [key, value] pairs, from pair number j on.
PairsToDict(pairs, acc, j) ==
    IF j > Len(pairs) THEN PyDict(acc)
    ELSE LET e == pairs[j]
         IN  IF IsList(e) /\ Len(Val(e)) = 2 /\ Kind(Val(e)[1]) = "str"
             THEN PairsToDict(pairs, DictSet(acc, Val(Val(e)[1]), Val(e)[2]), j + 1)
             ELSE Raised(IF Kind(e) \in {"list", "str", "dict"}
                         THEN "ValueError" ELSE "TypeError")

\* dict(w): a copy of a dict, the dict of a list of pairs, {} for "" and [],
\* and an exception for what is no mapping and no sequence of pairs.  (Pairs
\* given as two-character strings or two-key dicts, and keys that are no
\* strings, are not among the documents drawn.)
DictOf(w) ==
    CASE Kind(w) = "dict" -> w
      [] Kind(w) = "list" -> PairsToDict(Val(w), EmptyDict, 1)
      [] Kind(w) = "str" -> IF Val(w) = "" THEN PyDict(EmptyDict) ELSE Raised("ValueError")
      [] OTHER -> Raised("TypeError")

\* The "buffers" entry of a decoded node: the counters the document gives a
\* value other than None, or None when there is none.
NodeBuffers(node) ==
    LET ks == {k \in BufferKeySet : Get(node, k) # PyNone}
    IN  IF ks = {} THEN PyNone ELSE PyDict([k \in ks |-> node[k]])

RECURSIVE extract_plan_tree(_)
RECURSIVE ExtractChildren(_, _, _)
RECURSIVE ExtractWorkers(_, _, _)

\* The loop putting each decoded child in front of the earlier ones.
ExtractChildrenReversed(items, acc, j) ==
    IF j > Len(items) THEN PyList(acc)
    ELSE IF IsDict(items[j])
         THEN LET c == extract_plan_tree(items[j])
              IN  IF IsRaised(c) THEN c ELSE ExtractChildren(items, <<c>> \o acc, j + 1)
         ELSE ExtractChildren(items, acc, j + 1)

\* The loop over node["Plans"] of extract_plan_tree: the decoded children.
ExtractChildren(items, acc, j) ==
    IF j > Len(items) THEN PyList(acc)
    ELSE IF IsDict(items[j])
         THEN LET c == extract_plan_tree(items[j])
              IN  IF IsRaised(c) THEN c ELSE ExtractChildren(items, Append(acc, c), j + 1)
         ELSE ExtractChildren(items, acc, j + 1)

\* The loop over node["Workers"] of extract_plan_tree: the worker records,
\* each with its "PlanTree" when it carries a "Plan".
ExtractWorkers(ws, acc, j) ==
    IF j > Len(ws) THEN PyList(acc)
    ELSE LET w_copy == DictOf(ws[j])
         IN  IF IsRaised(w_copy) THEN w_copy
             ELSE IF IsDict(Get(Val(w_copy), "Plan"))
                  THEN LET t == extract_plan_tree(Val(w_copy)["Plan"])
                       IN  IF IsRaised(t) THEN t
                           ELSE ExtractWorkers(ws,
                                    Append(acc, PyDict(DictSet(Val(w_copy), "PlanTree", t))),
                                    j + 1)
                  ELSE ExtractWorkers(ws, Append(acc, w_copy), j + 1)

\* extract_plan_tree(node): the decoded node, or the exception raised.
extract_plan_tree(node) ==
    IF ~IsDict(node) THEN Raised("AttributeError")
    ELSE
    LET n == Val(node)
        items == IterItems(GetOr(n, "Plans", PyList(<<>>)))
        children == IF IsRaised(items) THEN items ELSE ExtractChildren(Val(items), <<>>, 1)
        base == [f \in TreeFieldNames |-> Get(n, DocKeyOf(f))]
                  @@ ("buffers" :> NodeBuffers(n))
    IN  IF IsRaised(children) THEN children
        ELSE IF "Workers" \in DOMAIN n /\ IsList(n["Workers"])
             THEN LET workers == ExtractWorkers(Val(n["Workers"]), <<>>, 1)
                  IN  IF IsRaised(workers) THEN workers
                      ELSE PyDict(base @@ ("children" :> children) @@ ("workers" :> workers))
             ELSE PyDict(base @@ ("children" :> children))

\* The "jit" entry of the summary.
JitSummary(jit) ==
    IF ~IsDict(jit) THEN PyNone
    ELSE LET j == Val(jit)
             core == ("Functions" :> Get(j, "Functions")) @@ ("Options" :> Get(j, "Options"))
         IN  PyDict(IF "Timing" \in DOMAIN j THEN core @@ ("Timing" :> j["Timing"]) ELSE core)

\* The try block of summarize_plan: the summary, or the exception raised.
SummarizeBody(plan_json) ==
    LET top == IF IsList(plan_json) /\ Truthy(plan_json) THEN Val(plan_json)[1] ELSE plan_json
    IN
    IF ~IsDict(top) THEN Raised("AttributeError")
    ELSE
    LET t == Val(top)
        plan == GetOr(t, "Plan", PyDict(EmptyDict))
    IN
    IF ~IsDict(plan) THEN Raised("AttributeError")
    ELSE
    LET p == Val(plan)
        buffers == collect_buffers(p, EmptyDict)
        complete_plan_tree == extract_plan_tree(plan)
        root == [ node_type |-> Get(p, "Node Type"),
                  relation |-> Get(p, "Relation Name"),
                  schema |-> Get(p, "Schema"),
                  alias |-> Get(p, "Alias"),
                  index_name |-> Get(p, "Index Name"),
                  plan_rows |-> Get(p, "Plan Rows"),
                  plan_width |-> Get(p, "Plan Width"),
                  total_cost |-> Get(p, "Total Cost"),
                  actual_rows |-> Get(p, "Actual Rows"),
                  actual_total_time_ms |-> Get(p, "Actual Total Time"),
                  actual_loops |-> Get(p, "Actual Loops"),
                  workers_planned |-> Get(p, "Workers Planned"),
                  workers_launched |-> Get(p, "Workers Launched") ]
    IN
    IF IsRaised(buffers) THEN buffers
    ELSE IF IsRaised(complete_plan_tree) THEN complete_plan_tree
    ELSE PyDict([ planning_time_ms |-> Get(t, "Planning Time"),
                  execution_time_ms |-> Get(t, "Execution Time"),
                  root |-> PyDict(root),
                  buffers |-> IF Truthy(buffers) THEN buffers ELSE PyNone,
                  jit |-> JitSummary(Get(t, "JIT")),
                  complete_plan_tree |-> complete_plan_tree ])

\* The try block without its handler.
CatchSummarizeErrorNot(s) == s

\* `except Exception as e` of summarize_plan: an exception of the try block
\* becomes a summary that holds only an "error" entry.
CatchSummarizeError(s) ==
    IF IsRaised(s) THEN PyDict("error" :> PyStr("Failed to summarize plan")) ELSE s

summarize_plan(plan_json) == CatchSummarizeError(SummarizeBody(plan_json))

(***************************************************************************)
(* Text.  File names, file contents and query names are sequences of       *)
(* characters.                                                             *)
(***************************************************************************)
Ascii ==
    [c \in {" ", ".", "0", "1", "2", "3", "4", "5", "6", "7", "8", "9", "_",
            "a", "d", "e", "l", "n", "o", "q", "r", "s", "t", "u", "x"} |->
        CASE c = " " -> 32 [] c = "." -> 46
          [] c = "0" -> 48 [] c = "1" -> 49 [] c = "2" -> 50 [] c = "3" -> 51
          [] c = "4" -> 52 [] c = "5" -> 53 [] c = "6" -> 54 [] c = "7" -> 55
          [] c = "8" -> 56 [] c = "9" -> 57 [] c = "_" -> 95
          [] c = "a" -> 97 [] c = "d" -> 100 [] c = "e" -> 101 [] c = "l" -> 108 [] c = "n" -> 110
          [] c = "o" -> 111 [] c = "q" -> 113 [] c = "r" -> 114 [] c = "s" -> 115
          [] c = "t" -> 116 [] c = "u" -> 117 [] c = "x" -> 120]

DigitChars == <<"0", "1", "2", "3", "4", "5", "6", "7", "8", "9">>

RECURSIVE Digits(_)
\* str(n) for n >= 0, as the f-string formats a round number.
Digits(n) == IF n < 10 THEN <<DigitChars[n + 1]>>
             ELSE Digits(n \div 10) \o <<DigitChars[(n % 10) + 1]>>

\* s < t for two texts, as Python compares str (by code point).
RECURSIVE StrLess(_, _)
StrLess(s, t) ==
    IF Len(t) = 0 THEN FALSE
    ELSE IF Len(s) = 0 THEN TRUE
    ELSE IF Ascii[Head(s)] # Ascii[Head(t)] THEN Ascii[Head(s)] < Ascii[Head(t)]
    ELSE StrLess(Tail(s), Tail(t))

\* s.endswith(suffix)
EndsWith(s, suffix) ==
    /\ Len(s) >= Len(suffix)
    /\ SubSeq(s, Len(s) - Len(suffix) + 1, Len(s)) = suffix

\* sub in s
Contains(s, sub) ==
    \E k \in 0..(Len(s) - Len(sub)) : SubSeq(s, k + 1, k + Len(sub)) = sub

RECURSIVE Strip(_)
\* s.strip() (of the white space the model's files hold: the space).
Strip(s) ==
    IF Len(s) = 0 THEN s
    ELSE IF Head(s) = " " THEN Strip(Tail(s))
    ELSE IF s[Len(s)] = " " THEN Strip(SubSeq(s, 1, Len(s) - 1))
    ELSE s

SqlSuffix == <<".", "s", "q", "l">>
RoundInfix == <<"_", "r", "o", "u", "n", "d">>

\* f"_round{r}"
RoundSuffix(r) == RoundInfix \o Digits(r)

\* qname = f"{s['filename']}_round{r}"
QueryName(filename, r) == filename \o RoundSuffix(r)

(***************************************************************************)
(* load_sql_files.  A directory is a set of files [name, content,          *)
(* readable], no two with the same name.                                   *)
(***************************************************************************)
\* A glob that matches every name of the directory.
GlobAll(dir) == dir

\* glob.glob(os.path.join(directory, "*.sql")): the names that end in .sql
\* and do not start with a dot.
GlobSql(dir) == {f \in dir : EndsWith(f.name, SqlSuffix) /\ Head(f.name) # "."}

RECURSIVE SortedByName(_)
\* sorted(paths): the files in the order of their names.
SortedByName(files) ==
    IF files = {} THEN <<>>
    ELSE LET first == CHOOSE f \in files : \A g \in files \ {f} : StrLess(f.name, g.name)
         IN  <<first>> \o SortedByName(files \ {first})

RECURSIVE LoadFrom(_, _)
\* The loop of load_sql_files over the sorted paths, from path number j on.
LoadFrom(paths, j) ==
    IF j > Len(paths) THEN <<>>
    ELSE LET f == paths[j]
             content == Strip(f.content)
         IN  IF f.readable /\ Len(content) > 0
             THEN <<[filename |-> f.name, content |-> content]>> \o LoadFrom(paths, j + 1)
             ELSE LoadFrom(paths, j + 1)

load_sql_files(dir) == LoadFrom(SortedByName(GlobSql(dir)), 1)

(***************************************************************************)
(* The executor's configuration and the EXPLAIN statement.                 *)
(***************************************************************************)
\* main's ENVIRONMENT_NAME when argv gives none.
environment_name == "unknown"

\* self.explain_options when the constructor is given none, in mapping order.
DefaultExplainOptions ==
    << <<"ANALYZE", PyBool(TRUE)>>, <<"BUFFERS", PyBool(TRUE)>>,
       <<"VERBOSE", PyBool(FALSE)>>, <<"COSTS", PyBool(TRUE)>>,
       <<"TIMING", PyBool(TRUE)>>, <<"FORMAT", PyStr("JSON")>> >>

\* `self.explain_options = explain_options or {...}`: the mapping given to
\* the constructor, the default one when it is None or empty.
ExplainOptionsOf(given) ==
    IF given = PyNone \/ given = <<>> THEN DefaultExplainOptions ELSE given

RECURSIVE ToStr(_)
\* The characters of a text as one string.
ToStr(chars) == IF Len(chars) = 0 THEN "" ELSE Head(chars) \o ToStr(Tail(chars))

\* k.upper() for the option names in use.
Upper(k) ==
    CASE k = "analyze" -> "ANALYZE" [] k = "buffers" -> "BUFFERS"
      [] k = "verbose" -> "VERBOSE" [] k = "costs" -> "COSTS"
      [] k = "timing" -> "TIMING" [] k = "format" -> "FORMAT"
      [] OTHER -> k

\* str(v) inside an f-string.
Format(v) ==
    CASE Kind(v) = "str" -> Val(v)
      [] Kind(v) = "int" -> ToStr(Digits(Val(v)))
      [] Kind(v) = "bool" -> IF Val(v) THEN "True" ELSE "False"
      [] OTHER -> "None"

\* An entry of opts rendered without the test for a boolean value.
ExplainOptionNoToggle(k, v) == Upper(k) \o " " \o Format(v)

\* One entry of opts in _build_explain_sql.
ExplainOption(k, v) ==
    IF Upper(k) = "FORMAT" THEN "FORMAT " \o Format(v)
    ELSE IF Kind(v) = "bool"
         THEN (IF Val(v) THEN Upper(k) ELSE Upper(k) \o " false")
         ELSE Upper(k) \o " " \o Format(v)

RECURSIVE JoinOptions(_, _)
\* ", ".join(opts), from option number j on.
JoinOptions(options, j) ==
    IF j > Len(options) THEN ""
    ELSE ExplainOption(options[j][1], options[j][2])
            \o (IF j < Len(options) THEN ", " ELSE "")
            \o JoinOptions(options, j + 1)

\* _build_explain_sql(query) under the given explain_options.
build_explain_sql(options, query) ==
    "EXPLAIN (" \o JoinOptions(options, 1) \o ") " \o query

(***************************************************************************)
(* The three dispatch operations.                                          *)
(*                                                                         *)
(* A call is given what the driver and the server do during it (drv):      *)
(*   fail   where a psycopg2.Error is raised: "none", "cursor", "execute"  *)
(*          or "fetch"; "interrupt" is a KeyboardInterrupt raised while    *)
(*          the statement runs, "interrupt_print" one raised while the     *)
(*          call prints its outcome (the OK line), and                     *)
(*          "cursor_interrupt_print", "execute_interrupt_print",           *)
(*          "fetch_interrupt_print" a psycopg2.Error at that step and a    *)
(*          KeyboardInterrupt raised while the FAIL line is printed;       *)
(*   d      how long cursor(), execute(), fetchall() and the step after    *)
(*          them take (the column read, or summarize_plan);                *)
(*   gap    the time between two clock reads that bracket no step;         *)
(*   rows, description   what fetchall() and cursor.description give;      *)
(*   doc    the first column of the first row of the EXPLAIN output.       *)
(* A call returns [ret, raised, stmts, elapsed, opened, closed]: the       *)
(* record returned (ret) unless an exception leaves the call (raised), the *)
(* statements sent to the server, the time the call took, and the cursors  *)
(* it opened and closed.  self.connection is "None", "open" or "closed".   *)
(***************************************************************************)
\* A call whose cursor.close() sits on the success path only, not in finally.
CallCloseOnSuccess(ret, raised, stmts, elapsed, opened) ==
    [ret |-> ret, raised |-> raised, stmts |-> stmts, elapsed |-> elapsed,
     opened |-> opened,
     closed |-> IF raised = "none" /\ "status" \in DOMAIN ret /\ ret.status = "success"
                THEN opened ELSE 0]

\* `finally: if cursor: cursor.close()`: every cursor opened is closed.
Call(ret, raised, stmts, elapsed, opened) ==
    [ret |-> ret, raised |-> raised, stmts |-> stmts, elapsed |-> elapsed,
     opened |-> opened, closed |-> opened]

\* The driver behaviours with a KeyboardInterrupt in the print of the outcome.
PrintInterrupts ==
    {"interrupt_print", "cursor_interrupt_print", "execute_interrupt_print",
     "fetch_interrupt_print"}

\* The step at which the driver raises psycopg2.Error under a behaviour.
ErrorPoint(fail) ==
    CASE fail = "cursor_interrupt_print" -> "cursor"
      [] fail = "execute_interrupt_print" -> "execute"
      [] fail = "fetch_interrupt_print" -> "fetch"
      [] OTHER -> fail

\* The print of the outcome (the OK or FAIL line) that ends the call c: a
\* KeyboardInterrupt that arrives there leaves the call, the cursor closed
\* by the finally clause and nothing returned.
PrintOutcome(drv, c) ==
    IF drv.fail \in PrintInterrupts /\ c.raised = "none"
    THEN [c EXCEPT !.ret = <<>>, !.raised = "KeyboardInterrupt"]
    ELSE c

\* `if not self.connection: return {"error": "Not connected"}`
NotConnected == Call([error |-> PyStr("Not connected")], "none", <<>>, 0, 0)

\* A closed connection that serves cursor() like an open one.
FailPointOfDriver(connection, drv) == ErrorPoint(drv.fail)

\* A closed connection refuses cursor() with psycopg2.InterfaceError.
FailPoint(connection, drv) ==
    IF connection = "closed" THEN "cursor" ELSE ErrorPoint(drv.fail)

\* The steps of a call that run before the failure, the failing one included.
Reached(fail) ==
    CASE fail = "cursor" -> 1
      [] fail \in {"execute", "interrupt"} -> 2
      [] fail = "fetch" -> 3
      [] OTHER -> 4

RECURSIVE SumTo(_, _)
SumTo(d, n) == IF n = 0 THEN 0 ELSE d[n] + SumTo(d, n - 1)

\* str(e) of the psycopg2.Error raised at a failure point.
ErrorText(fail) ==
    CASE fail = "cursor" -> "connection already closed"
      [] fail = "execute" -> "relation does not exist"
      [] OTHER -> "no results to fetch"

\* [desc[0] for desc in cursor.description] if cursor.description else []
ColumnNames(description) ==
    IF Truthy(description)
    THEN PyList([j \in 1..Len(Val(description)) |-> Val(Val(description)[j])[1]])
    ELSE PyList(<<>>)

\* The handler left out: the psycopg2.Error leaves the call.
ErrorResultUncaught(query_name, elapsed, fail, stmts, opened) ==
    Call(<<>>, "psycopg2.Error", stmts, elapsed, opened)

\* The handler `except psycopg2.Error as e` of execute_query_simple and of
\* execute_query_with_detailed_timing: the error becomes the record returned.
ErrorResult(query_name, elapsed, fail, stmts, opened) ==
    Call([ query_name |-> query_name,
           environment |-> environment_name,
           execution_time |-> elapsed,
           error |-> PyStr(ErrorText(fail)),
           status |-> "error",
           plan_summary |-> PyNone ], "none", stmts, elapsed, opened)

execute_query_simple(connection, drv, query, query_name) ==
    IF connection = "None" THEN NotConnected
    ELSE
    LET fail == FailPoint(connection, drv)
        dt == SumTo(drv.d, Reached(fail))
        stmts == IF Reached(fail) >= 2 THEN <<ToStr(query)>> ELSE <<>>
        opened == IF fail = "cursor" THEN 0 ELSE 1
    IN
    CASE fail \in {"none", "interrupt_print"} ->
           PrintOutcome(drv,
             Call([ query_name |-> query_name,
                    environment |-> environment_name,
                    execution_time |-> dt,
                    row_count |-> PyInt(Len(Val(drv.rows))),
                    column_names |-> ColumnNames(drv.description),
                    results |-> drv.rows,
                    status |-> "success",
                    plan_summary |-> PyNone ], "none", stmts, dt, opened))
      [] fail = "interrupt" ->
           Call(<<>>, "KeyboardInterrupt", stmts, dt, opened)
      [] OTHER -> PrintOutcome(drv, ErrorResult(query_name, dt, fail, stmts, opened))

\* The total taken from the outer clock reads.
TotalTimeOuter(detailed_timing, outer) == outer

\* total_time of execute_query_with_detailed_timing (outer is t1 - t0, which
\* the code measures on the error path only).
TotalTime(detailed_timing, outer) ==
    detailed_timing.cursor_creation_time
      + detailed_timing.query_execution_time
      + detailed_timing.result_fetch_time
      + detailed_timing.column_info_time

\* detailed_timing when the four phases are done.
DetailedTiming(d) ==
    [ cursor_creation_time |-> d[1],
      query_execution_time |-> d[2],
      result_fetch_time |-> d[3],
      column_info_time |-> d[4] ]

execute_query_with_detailed_timing(connection, drv, query, query_name) ==
    IF connection = "None" THEN NotConnected
    ELSE
    LET fail == FailPoint(connection, drv)
        n == Reached(fail)
        \* t1 - t0: every phase run and the gap before each of them
        outer == SumTo(drv.d, n) + n * drv.gap
        detailed_timing == DetailedTiming(drv.d)
        total_time == TotalTime(detailed_timing, outer)
        stmts == IF n >= 2 THEN <<ToStr(query)>> ELSE <<>>
        opened == IF fail = "cursor" THEN 0 ELSE 1
    IN
    CASE fail \in {"none", "interrupt_print"} ->
           PrintOutcome(drv,
             Call([ query_name |-> query_name,
                    environment |-> environment_name,
                    execution_time |-> total_time,
                    detailed_timing |-> detailed_timing,
                    row_count |-> PyInt(Len(Val(drv.rows))),
                    column_names |-> ColumnNames(drv.description),
                    results |-> drv.rows,
                    status |-> "success",
                    plan_summary |-> PyNone ], "none", stmts, outer, opened))
      [] fail = "interrupt" ->
           Call(<<>>, "KeyboardInterrupt", stmts, outer, opened)
      [] OTHER -> PrintOutcome(drv, ErrorResult(query_name, outer, fail, stmts, opened))

RECURSIVE JsonRoundTrip(_)
\* json.loads(json.dumps(v)): lists and dicts are rebuilt, element by element.
JsonRoundTrip(v) ==
    CASE Kind(v) = "list" -> PyList([j \in 1..Len(Val(v)) |-> JsonRoundTrip(Val(v)[j])])
      [] Kind(v) = "dict" -> PyDict([k \in DOMAIN Val(v) |-> JsonRoundTrip(Val(v)[k])])
      [] OTHER -> v

\* The query run again after its EXPLAIN.
ExplainStatementsTwice(query) ==
    <<build_explain_sql(DefaultExplainOptions, ToStr(query)), ToStr(query)>>

\* The statements the plan mode sends for one query.
ExplainStatements(query) == <<build_explain_sql(DefaultExplainOptions, ToStr(query))>>

\* The dict get_explain_analyze_json returns once the plan is summarized.
ExplainOut(plan_json, plan_summary, store_full_plan_json) ==
    IF store_full_plan_json
    THEN [plan_summary |-> plan_summary, explain_text |-> PyNone, plan_json |-> plan_json]
    ELSE [plan_summary |-> plan_summary, explain_text |-> PyNone]

\* get_explain_analyze_json once the rows are fetched: the plan is decoded
\* and summarized.  Only psycopg2.Error is caught here.
ExplainFetched(plan_json, store_full_plan_json) ==
    LET Out(plan_summary) ==
            IF IsRaised(plan_summary)
            THEN [out |-> <<>>, raised |-> Val(plan_summary)]
            ELSE [out |-> ExplainOut(plan_json, plan_summary, store_full_plan_json),
                  raised |-> "none"]
    IN  Out(summarize_plan(plan_json))

\* get_explain_analyze_json(query): [out, raised, stmts, elapsed, opened, closed],
\* out being the dict returned.
get_explain_analyze_json(connection, drv, query, store_full_plan_json) ==
    IF connection = "None"
    THEN [out |-> [error |-> PyStr("Not connected")], raised |-> "none",
          stmts |-> <<>>, elapsed |-> 0, opened |-> 0, closed |-> 0]
    ELSE
    LET fail == FailPoint(connection, drv)
        n == Reached(fail)
        Ret(o, steps) ==
            [out |-> o.out, raised |-> o.raised,
             stmts |-> IF n >= 2 THEN ExplainStatements(query) ELSE <<>>,
             elapsed |-> SumTo(drv.d, steps),
             opened |-> IF fail = "cursor" THEN 0 ELSE 1,
             closed |-> IF fail = "cursor" THEN 0 ELSE 1]
    IN
    Ret(CASE fail = "interrupt" -> [out |-> <<>>, raised |-> "KeyboardInterrupt"]
          [] fail \in {"cursor", "execute", "fetch"} ->
               [out |-> [error |-> PyStr("EXPLAIN failed: " \o ErrorText(fail))],
                raised |-> "none"]
          [] OTHER ->
               IF Len(Val(drv.explain_rows)) = 0
               THEN [out |-> [error |-> PyStr("No EXPLAIN output")], raised |-> "none"]
               ELSE ExplainFetched(JsonRoundTrip(Val(Val(drv.explain_rows)[1])[1]),
                                   store_full_plan_json),
        IF fail \in {"none", "interrupt_print"}
        THEN (IF Len(Val(drv.explain_rows)) > 0 THEN 4 ELSE 3)
        ELSE n)

\* The client's time whatever the server reports.
PrimaryExecSecondsClient(execution_ms, client_elapsed) == client_elapsed

\* primary_exec_seconds, in microseconds: the server's Execution Time
\* (milliseconds) / 1000.0 seconds when it is a number, else client_elapsed.
PrimaryExecSeconds(execution_ms, client_elapsed) ==
    IF IsNumber(execution_ms) THEN IntOf(execution_ms) * 1000 ELSE client_elapsed

\* The error record without the time measured.
ExplainErrorResultNoElapsed(query_name, client_elapsed, explain_out) ==
    [ query_name |-> query_name,
      environment |-> environment_name,
      execution_time |-> 0,
      status |-> "error",
      error |-> explain_out.error ]

\* The record execute_query_with_explain returns when "error" is in explain_out.
ExplainErrorResult(query_name, client_elapsed, explain_out) ==
    [ query_name |-> query_name,
      environment |-> environment_name,
      execution_time |-> client_elapsed,
      status |-> "error",
      error |-> explain_out.error ]

\* x.get(k) where x should be a dict: an AttributeError otherwise.
GetAttr(x, k) == IF IsDict(x) THEN Get(Val(x), k) ELSE Raised("AttributeError")

\* execute_query_with_explain after the call of get_explain_analyze_json,
\* which returned e.
ExplainResult(e, query_name, store_full_plan_json) ==
    LET explain_out == e.out
        client_elapsed == e.elapsed
        Returns(ret) == [ret |-> ret, raised |-> e.raised, stmts |-> e.stmts,
                         elapsed |-> e.elapsed, opened |-> e.opened, closed |-> e.closed]
    IN
    IF e.raised # "none" THEN Returns(<<>>)
    ELSE IF "error" \in DOMAIN explain_out
    THEN Returns(ExplainErrorResult(query_name, client_elapsed, explain_out))
    ELSE
    LET plan_summary == GetOr(explain_out, "plan_summary", PyDict(EmptyDict))
        execution_ms == Get(Val(plan_summary), "execution_time_ms")
        primary_exec_seconds == PrimaryExecSeconds(execution_ms, client_elapsed)
        root == GetOr(Val(plan_summary), "root", PyDict(EmptyDict))
        result == [ query_name |-> query_name,
                    environment |-> environment_name,
                    execution_time |-> primary_exec_seconds,
                    status |-> "success",
                    row_count |-> Get(Val(root), "actual_rows"),
                    column_names |-> PyNone,
                    results |-> PyNone,
                    plan_summary |-> plan_summary ]
    IN  Returns(IF store_full_plan_json
                THEN result @@ [plan_json |-> Get(explain_out, "plan_json")]
                ELSE result)

\* The print that ends execute_query_with_explain, which only a record of
\* status success reaches (the error record is returned unprinted).
PrintPlanOutcome(drv, c) ==
    IF c.raised = "none" /\ c.ret.status = "success" THEN PrintOutcome(drv, c) ELSE c

execute_query_with_explain(connection, drv, query, query_name, store_full_plan_json) ==
    IF connection = "None" THEN NotConnected
    ELSE PrintPlanOutcome(drv,
           ExplainResult(get_explain_analyze_json(connection, drv, query,
                                                  store_full_plan_json),
                         query_name, store_full_plan_json))

(***************************************************************************)
(* map_scenario (generate_sql_speedup_hash_cache.py).  A text is the       *)
(* sequence of its characters, over the letters below, "_", "+" and the    *)
(* space.                                                                  *)
(***************************************************************************)
LowerLetters == <<"a", "b", "c", "e", "h", "i", "j", "l", "m", "n", "o", "r", "s", "t", "f", "x">>
UpperLetters == <<"A", "B", "C", "E", "H", "I", "J", "L", "M", "N", "O", "R", "S", "T", "F", "X">>

\* ch.lower() and ch.upper() of one character.
LowerChar(ch) ==
    IF \E a \in 1..Len(UpperLetters) : UpperLetters[a] = ch
    THEN LowerLetters[CHOOSE a \in 1..Len(UpperLetters) : UpperLetters[a] = ch]
    ELSE ch
UpperChar(ch) ==
    IF \E a \in 1..Len(LowerLetters) : LowerLetters[a] = ch
    THEN UpperLetters[CHOOSE a \in 1..Len(LowerLetters) : LowerLetters[a] = ch]
    ELSE ch

\* s.lower() and s.upper()
LowerText(s) == [a \in 1..Len(s) |-> LowerChar(s[a])]
UpperText(s) == [a \in 1..Len(s) |-> UpperChar(s[a])]

\* `mapping` of map_scenario: key, label.
ScenarioMapping ==
    { <<<<"b", "a", "s", "e", "l", "i", "n", "e">>, <<"N", "O", "N", "E">>>>,
      <<<<"c", "e", "_", "c", "m">>, <<"C", "E", "+", "C", "M">>>>,
      <<<<"c", "e">>, <<"C", "E">>>>,
      <<<<"c", "m">>, <<"C", "M">>>>,
      <<<<"j", "n">>, <<"J", "N">>>>,
      <<<<"c", "e", "_", "j", "n">>, <<"C", "E", "+", "J", "N">>>>,
      <<<<"c", "m", "_", "j", "n">>, <<"C", "M", "+", "J", "N">>>>,
      <<<<"a", "l", "l", "_", "t", "h", "r", "e", "e">>, <<"A", "L", "L">>>>,
      <<<<"a", "l", "l">>, <<"A", "L", "L">>>>,
      <<<<"c", "e", "+", "c", "m">>, <<"C", "E", "+", "C", "M">>>>,
      <<<<"c", "e", "+", "j", "n">>, <<"C", "E", "+", "J", "N">>>>,
      <<<<"c", "m", "+", "j", "n">>, <<"C", "M", "+", "J", "N">>>>,
      <<<<"c", "e", "+", "c", "m", "+", "j", "n">>, <<"A", "L", "L">>>> }

\* mapping.get(key, default)
MappingGet(key, default) ==
    IF \E e \in ScenarioMapping : e[1] = key
    THEN (CHOOSE e \in ScenarioMapping : e[1] = key)[2]
    ELSE default

\* map_scenario(best_combo): `if not best_combo: return "NONE"`, else the
\* label of best_combo.strip().lower(), best_combo.strip().upper() for a
\* key the mapping does not hold.
map_scenario(combo) ==
    IF combo = PyNone \/ combo = <<>> THEN <<"N", "O", "N", "E">>
    ELSE MappingGet(LowerText(Strip(combo)), UpperText(Strip(combo)))

(***************************************************************************)
(* connect, disconnect and save_results.                                   *)
(***************************************************************************)
\* The statement connect() sends for a positive statement_timeout_ms.
SetTimeoutSql(ms) == "SET statement_timeout = '" \o ToStr(Digits(ms)) \o "ms'"

\* A test for a value given, whatever it is.
TimeoutNotNone(statement_timeout_ms) == statement_timeout_ms # PyNone

\* `if self.statement_timeout_ms and self.statement_timeout_ms > 0`
TimeoutConfigured(statement_timeout_ms) ==
    Truthy(statement_timeout_ms) /\ Val(statement_timeout_ms) > 0

\* What the server and the user may do during connect(): "ok", "refused"
\* (psycopg2.connect raises psycopg2.Error), "setup_failed" (the SET
\* statement, when one is sent, raises psycopg2.Error), and a
\* KeyboardInterrupt where connect() waits: "interrupted_connect" (the first
\* print or psycopg2.connect, nothing opened yet), "interrupted_setup" (the
\* SET statement or the print after it, or the print that no timeout is set:
\* the setup cursor still open), "interrupted_connected" (the last print,
\* the setup cursor closed), and "refused_interrupted" and
\* "setup_failed_interrupted" (the failure is printed, and the interrupt
\* arrives as that print returns).
ConnectHows(statement_timeout_ms) ==
    {"ok", "refused", "interrupted_connect", "interrupted_setup",
     "interrupted_connected", "refused_interrupted"} \cup
    (IF TimeoutConfigured(statement_timeout_ms)
     THEN {"setup_failed", "setup_failed_interrupted"} ELSE {})

\* connect(): what it returns (ok, dt), or the exception that leaves it
\* (only psycopg2.Error is caught), whether it printed "Connection failed",
\* and what it leaves behind: self.connection, the statements sent, the
\* cursors opened and closed.
connect(connection, statement_timeout_ms, how, dt) ==
    IF how \in {"refused", "refused_interrupted", "interrupted_connect"}
    THEN [ ok |-> FALSE, dt |-> 0,
           raised |-> IF how = "refused" THEN "none" ELSE "KeyboardInterrupt",
           failed |-> how # "interrupted_connect",
           connection |-> connection, stmts |-> <<>>, opened |-> 0, closed |-> 0 ]
    ELSE [ ok |-> how = "ok",
           dt |-> IF how = "ok" THEN dt ELSE 0,
           raised |-> IF how \in {"interrupted_setup", "interrupted_connected",
                                  "setup_failed_interrupted"}
                      THEN "KeyboardInterrupt" ELSE "none",
           failed |-> how \in {"setup_failed", "setup_failed_interrupted"},
           connection |-> "open",
           stmts |-> IF TimeoutConfigured(statement_timeout_ms)
                     THEN <<SetTimeoutSql(Val(statement_timeout_ms))>> ELSE <<>>,
           opened |-> 1,
           closed |-> IF how \in {"ok", "interrupted_connected"} THEN 1 ELSE 0 ]

\* disconnect() that closes nothing.
DisconnectNothing(connection) == connection

\* disconnect() without its test of self.connection.
DisconnectUnguarded(connection) == "closed"

\* disconnect(): self.connection afterwards.
disconnect(connection) == IF connection # "None" THEN "closed" ELSE connection

\* A quotient a / b of two integers, kept as the pair.
Rat(a, b) == <<a, b>>
RatEq(x, y) == x[1] * y[2] = y[1] * x[2]

RECURSIVE SumSeq(_)
SumSeq(xs) == IF Len(xs) = 0 THEN 0 ELSE Head(xs) + SumSeq(Tail(xs))

RECURSIVE SumSquares(_)
SumSquares(xs) == IF Len(xs) = 0 THEN 0 ELSE Head(xs) * Head(xs) + SumSquares(Tail(xs))

MinSeq(xs) == CHOOSE x \in {xs[j] : j \in 1..Len(xs)} : \A j \in 1..Len(xs) : x <= xs[j]
MaxSeq(xs) == CHOOSE x \in {xs[j] : j \in 1..Len(xs)} : \A j \in 1..Len(xs) : x >= xs[j]

\* statistics.stdev(xs) if len(xs) > 1 else 0.0, given by its square (the
\* sample variance).
StdevSquared(xs) ==
    IF Len(xs) > 1
    THEN Rat(Len(xs) * SumSquares(xs) - SumSeq(xs) * SumSeq(xs), Len(xs) * (Len(xs) - 1))
    ELSE Rat(0, 1)

\* The results save_results counts with the given status; r["status"] raises
\* KeyError on a record without one.
HasStatus(res) == "status" \in DOMAIN res
CountStatus(rs, status) == Cardinality({j \in 1..Len(rs) : rs[j].status = status})

RECURSIVE TotalExec(_)
\* sum(r.get("execution_time", 0.0) for r in results if r.get("status") == "success")
TotalExec(rs) ==
    IF Len(rs) = 0 THEN 0
    ELSE (IF HasStatus(Head(rs)) /\ Head(rs).status = "success"
          THEN (IF "execution_time" \in DOMAIN Head(rs) THEN Head(rs).execution_time ELSE 0)
          ELSE 0) + TotalExec(Tail(rs))

\* avg_query_time = (total_exec / n) if n else 0.0, with n = len(self.results)
AverageQueryTime(total_exec, rs) ==
    LET n == Len(rs) IN IF n # 0 THEN Rat(total_exec, n) ELSE Rat(0, 1)

\* The round statistics save_results adds when self.round_times is not empty.
RoundSummary(rts) ==
    [ rounds |-> Len(rts),
      average_round_time |-> Rat(SumSeq(rts), Len(rts)),
      min_round_time |-> MinSeq(rts),
      max_round_time |-> MaxSeq(rts),
      total_round_time |-> SumSeq(rts),
      std_deviation |-> StdevSquared(rts) ]

\* save_data of save_results, or the exception raised while it is built.
SaveData(rs, rts, ctime) ==
    IF \E j \in 1..Len(rs) : ~HasStatus(rs[j]) THEN Raised("KeyError")
    ELSE
    LET total_exec == TotalExec(rs)
        summary == [ total_queries |-> Len(rs),
                     successful_queries |-> CountStatus(rs, "success"),
                     failed_queries |-> CountStatus(rs, "error"),
                     total_execution_time |-> total_exec,
                     average_query_time |-> AverageQueryTime(total_exec, rs) ]
    IN  PyDict([ environment |-> environment_name,
                 connection_time |-> ctime,
                 summary |-> IF Len(rts) > 0 THEN summary @@ RoundSummary(rts) ELSE summary,
                 round_times |-> rts,
                 query_results |-> rs ])

(***************************************************************************)
(* Inputs: plan documents, driver behaviours, directories.                 *)
(***************************************************************************)
\* A plan node of the document: its counters, children and other entries.
Node(type, counters, extra) == PyDict(("Node Type" :> PyStr(type)) @@ counters @@ extra)
Plans(children) == "Plans" :> PyList(children)
Workers(ws) == "Workers" :> PyList(ws)

CounterChoices ==
    { EmptyDict,
      "Shared Hit Blocks" :> PyInt(2),
      ("Shared Hit Blocks" :> PyInt(1)) @@ ("Temp Read Blocks" :> PyInt(4)),
      ("Shared Hit Blocks" :> PyNone) @@ ("Temp Read Blocks" :> PyStr("7"))
          @@ ("Local Hit Blocks" :> PyBool(TRUE)) }

Leaves == {Node("Seq Scan", c, "Actual Rows" :> PyInt(3)) : c \in CounterChoices}

\* Worker records: without a plan of their own, and with one.
WorkerChoices ==
    {PyDict(("Worker Number" :> PyInt(0)) @@ ("Shared Hit Blocks" :> PyInt(1)))}
      \cup {PyDict(("Worker Number" :> PyInt(0)) @@ ("Plan" :> t)) : t \in Leaves}

RECURSIVE Trees(_)
\* The plan trees of depth at most d.
Trees(d) ==
    IF d = 0 THEN Leaves
    ELSE LET below == Trees(d - 1)
         IN  below
               \cup {Node("Nested Loop", c, Plans(<<t>>)) :
                        c \in CounterChoices, t \in below}
               \cup {Node("Hash Join", c, Plans(<<t, u>>)) :
                        c \in CounterChoices, t \in below, u \in Leaves}
               \cup {Node("Gather", c, Plans(<<t>>) @@ Workers(<<w>>)) :
                        c \in CounterChoices, t \in Leaves, w \in WorkerChoices}

\* The document EXPLAIN (FORMAT JSON) returns: a list holding one object.
Document(plan, times) == PyList(<<PyDict(("Plan" :> plan) @@ times)>>)

ServerTimes(ms) == ("Planning Time" :> PyInt(1)) @@ ("Execution Time" :> ms)

ExecutionTimeChoices == {PyInt(12), PyInt(0), PyNone, PyStr("12.5"), PyBool(TRUE)}

ScanNode == Node("Seq Scan", "Shared Hit Blocks" :> PyInt(5), "Actual Rows" :> PyInt(3))

\* A join node over one scan child, buffer counters on both.
JoinDocument ==
    Document(Node("Nested Loop",
                  ("Shared Hit Blocks" :> PyInt(2)) @@ ("Shared Read Blocks" :> PyInt(1)),
                  ("Actual Rows" :> PyInt(3)) @@ Plans(<<ScanNode>>)),
             ServerTimes(PyInt(12)))

\* A document without Execution Time (EXPLAIN without ANALYZE).
EstimateDocument == Document(ScanNode, "Planning Time" :> PyInt(1))

\* Documents of another shape than the summarizer expects.
OddDocuments ==
    { PyStr("Seq Scan on t  (cost=0.00..1.00 rows=1 width=4)"),
      PyNone,
      PyList(<<>>),
      PyDict(("Plan" :> ScanNode) @@ ServerTimes(PyInt(12))),
      PyList(<<PyDict(ServerTimes(PyInt(12)))>>),
      Document(PyNone, ServerTimes(PyInt(12))),
      Document(PyList(<<ScanNode>>), ServerTimes(PyInt(12))),
      Document(Node("Sort", EmptyDict, "Plans" :> PyInt(3)), ServerTimes(PyInt(12))),
      Document(Node("Sort", EmptyDict, "Plans" :> PyNone), ServerTimes(PyInt(12))),
      Document(Node("Sort", EmptyDict, "Plans" :> PyStr("none")), ServerTimes(PyInt(12))),
      Document(Node("Sort", "Shared Hit Blocks" :> PyInt(1),
                    Plans(<<PyInt(7), ScanNode, PyNone>>)), ServerTimes(PyInt(12))),
      Document(Node("Sort", EmptyDict,
                    Plans(<<Node("Sort", EmptyDict, "Plans" :> PyBool(TRUE))>>)),
               ServerTimes(PyInt(12))),
      Document(Node("Gather", EmptyDict, Workers(<<PyInt(1)>>)), ServerTimes(PyInt(12))),
      Document(Node("Gather", EmptyDict, "Workers" :> PyStr("two")), ServerTimes(PyInt(12))),
      Document(Node("Gather", EmptyDict, Workers(<<PyList(<<>>)>>)), ServerTimes(PyInt(12))),
      Document(Node("Gather", EmptyDict,
                    Workers(<<PyList(<<PyList(<<PyStr("Plan"), ScanNode>>)>>)>>)),
               ServerTimes(PyInt(12))),
      Document(Node("Gather", EmptyDict,
                    Workers(<<PyDict("Plan" :> Node("Sort", EmptyDict, "Plans" :> PyInt(3)))>>)),
               ServerTimes(PyInt(12))),
      PyList(<<PyDict(("Plan" :> ScanNode) @@ ServerTimes(PyInt(12))
                        @@ ("JIT" :> PyDict(("Functions" :> PyInt(4))
                                              @@ ("Timing" :> PyDict(EmptyDict)))))>>),
      PyList(<<PyDict(("Plan" :> ScanNode) @@ ServerTimes(PyInt(12))
                        @@ ("JIT" :> PyDict("Functions" :> PyInt(4))))>>) }

\* A plan three levels deep, its children of different types, one of them
\* with an entry the decoder does not know and one with "Plans": null.
DeepDocument ==
    Document(
      Node("Hash Join", "Shared Hit Blocks" :> PyInt(2),
           Plans(<< Node("Nested Loop", EmptyDict,
                         Plans(<< Node("Index Scan", "Shared Hit Blocks" :> PyInt(1),
                                       "Heap Fetches" :> PyInt(9)),
                                  Node("Seq Scan", EmptyDict, "Plans" :> PyNone),
                                  Node("Bitmap Heap Scan", "Temp Read Blocks" :> PyInt(4),
                                       "Exact Heap Tuples" :> PyInt(6)) >>)),
                    Node("Hash", EmptyDict, Plans(<<ScanNode>>)) >>)),
      ServerTimes(PyInt(12)))

\* The documents the summarizer is run on.
PlanDocuments ==
    {Document(t, ServerTimes(PyInt(12))) : t \in Trees(MaxDepth)}
      \cup {Document(t, ServerTimes(ms)) : t \in Leaves, ms \in ExecutionTimeChoices}
      \cup {JoinDocument, EstimateDocument, DeepDocument}
      \cup OddDocuments

\* The documents a single dispatch is run on.
DispatchDocuments ==
    {Document(ScanNode, ServerTimes(ms)) : ms \in ExecutionTimeChoices}
      \cup {JoinDocument, EstimateDocument}
      \cup OddDocuments

FailPoints == {"none", "cursor", "execute", "fetch", "interrupt"} \cup PrintInterrupts

Row(n) == PyList(<<PyInt(n)>>)

\* An entry of cursor.description: the column's name, then its type code.
Column(name) == PyList(<<PyStr(name), PyInt(23)>>)

\* What the driver does during a single dispatch.
Drivers ==
    [ fail : FailPoints,
      d : {<<1, 20, 4, 1>>, <<0, 0, 0, 0>>, <<2, 7, 0, 3>>},
      gap : {0, 1},
      rows : {PyList(<<>>), PyList(<<Row(1), Row(2)>>)},
      description : {PyNone, PyList(<<Column("id")>>)},
      explain_rows : {PyList(<<>>)} \cup {PyList(<<PyList(<<doc>>)>>) : doc \in DispatchDocuments} ]

\* Plan documents the summarizer fails on.
MalformedDocuments ==
    << Document(PyNone, ServerTimes(PyInt(12))),
       PyStr("Seq Scan on t  (cost=0.00..1.00 rows=1 width=4)"),
       PyList(<<>>) >>

\* What the server answers to query number i of round r of a run: the time
\* depends on the query and the round; the second query gets a plan document
\* of an unexpected shape, another one in each round.
RunDocument(i, r) ==
    CASE i = 1 -> JoinDocument
      [] i = 2 -> MalformedDocuments[((r - 1) % Len(MalformedDocuments)) + 1]
      [] OTHER -> EstimateDocument

RunDriver(fail, i, r) ==
    [ fail |-> fail,
      d |-> <<1, 10 * i + r, 2, 1>>,
      gap |-> 1,
      rows |-> PyList(<<Row(i)>>),
      description |-> PyList(<<Column("id")>>),
      explain_rows |-> PyList(<<PyList(<<RunDocument(i, r)>>)>>) ]

\* File names and contents of a directory of n query files, beside a file
\* that is no query file and a query file that holds white space only.
QueryFile(j) ==
    [ name |-> <<"q">> \o Digits(j) \o SqlSuffix,
      content |-> <<" ", "s">> \o Digits(j) \o <<" ">>,
      readable |-> TRUE ]

OtherFiles ==
    { [name |-> <<"n", "o", "t", "e", "s", ".", "t", "x", "t">>,
       content |-> <<"x">>, readable |-> TRUE],
      [name |-> <<"n", "o", "n", "e">> \o SqlSuffix,
       content |-> <<" ", " ">>, readable |-> TRUE],
      [name |-> <<"d", "a", "t", "a">> \o SqlSuffix,
       content |-> <<"s", "9">>, readable |-> FALSE],
      [name |-> <<".", "q", "0">> \o SqlSuffix,
       content |-> <<"s", "8">>, readable |-> TRUE] }

Directory(n) == {QueryFile(j) : j \in 1..n} \cup OtherFiles

\* A query file whose name itself holds the text "_round2".
RoundNamedFile ==
    [ name |-> <<"q">> \o RoundInfix \o <<"2">> \o SqlSuffix,
      content |-> <<"s", "0">>,
      readable |-> TRUE ]

\* A directory of two query files, the second named q_round2.sql.
RoundNamedDirectory == {QueryFile(1), RoundNamedFile}

Modes == {"", "detailed", "explain"}

\* The canonical scenario labels.
CanonicalLabels ==
    { <<"N", "O", "N", "E">>,
      <<"C", "E">>,
      <<"C", "M">>,
      <<"J", "N">>,
      <<"C", "E", "+", "C", "M">>,
      <<"C", "E", "+", "J", "N">>,
      <<"C", "M", "+", "J", "N">>,
      <<"A", "L", "L">> }

\* The texts given to map_scenario before padding: the keys of the mapping,
\* the canonical labels, the empty text, and texts the mapping does not hold.
ComboWords ==
    {e[1] : e \in ScenarioMapping} \cup CanonicalLabels \cup
    { <<>>,
      <<"n", "o", "n", "e">>,
      <<"f", "o", "x">>,
      <<"C", "e", "_", "C", "m">>,
      <<"A", "l", "l">>,
      <<"c", "e", "+", "c", "m", "+", "j", "n", "+", "x">> }

\* n spaces.
Spaces(n) == [a \in 1..n |-> " "]

\* The values of best_combo: None, or a text with up to MaxPad spaces on each side.
BestCombos ==
    {PyNone} \cup {Spaces(l) \o w \o Spaces(r) : w \in ComboWords, l \in 0..MaxPad, r \in 0..MaxPad}

\* The option names EXPLAIN knows, some in lower case, and the values given
\* to each: a boolean to a toggle, a format name to FORMAT.
OptionNames == {"ANALYZE", "BUFFERS", "VERBOSE", "COSTS", "TIMING", "FORMAT",
                "timing", "format"}
OptionValues(k) ==
    IF k \in {"FORMAT", "format"} THEN {PyStr("JSON"), PyStr("json"), PyStr("TEXT")}
    ELSE {PyBool(TRUE), PyBool(FALSE)}

\* An option mapping: pairs <<name, value>> in mapping order, no name twice.
IsMapping(options) ==
    \A a, b \in 1..Len(options) : a # b => options[a][1] # options[b][1]

Options == UNION {{<<k, v>> : v \in OptionValues(k)} : k \in OptionNames}

\* The mappings of at most MaxOptions entries.
OptionMappings ==
    UNION { {o \in [1..n -> Options] : IsMapping(o)} : n \in 0..MaxOptions }

\* The query texts given to _build_explain_sql.
Queries == {"SELECT 1", " select * from t where a = ') ' ; "}

(***************************************************************************)
(* State.                                                                  *)
(***************************************************************************)
VARIABLES
    pc,            \* where main() (or the caller of the executor) stands
    argv,          \* the run's configuration: iterations, mode, store_full_plan_json,
                   \* statement_timeout_ms
    directory,     \* the files of SQL_DIRECTORY, or "missing"
    connection,    \* self.connection: "None", "open" or "closed"
    results,       \* self.results
    round_times,   \* self.round_times
    connect_time,  \* self.connect_time
    loop,          \* the locals of execute_all_queries: sql_files, r, i, round_times, r0
    now,           \* the clock (time.time())
    server,        \* the server's side: the statements received, the cursors open
    calls,         \* what the driver did during each dispatch made so far
    printed,       \* the run-level messages main and the executor printed
    report,        \* the file save_results wrote, None before
    plan_json,     \* the document given to summarize_plan
    plan_summary,  \* what summarize_plan returned
    explain_options, \* self.explain_options, in mapping order
    explain_sql,   \* what _build_explain_sql returned, None before
    best_combo,    \* the text given to map_scenario, None for none
    scenarios,     \* what map_scenario returned: for best_combo, then for that label
    returned       \* the record a dispatch returned to a caller of the executor

vars == <<pc, argv, directory, connection, results, round_times, connect_time,
          loop, now, server, calls, printed, report, plan_json, plan_summary,
          explain_options, explain_sql, best_combo, scenarios, returned>>

\* The executor right after __init__.
NewExecutor ==
    /\ connection = "None"
    /\ results = <<>>
    /\ round_times = <<>>
    /\ connect_time = 0

NoLoop == [sql_files |-> <<>>, r |-> 0, i |-> 0, round_times |-> <<>>, r0 |-> 0]
NoServer == [statements |-> <<>>, cursors |-> 0]

Idle ==
    /\ loop = NoLoop
    /\ now = 0
    /\ server = NoServer
    /\ calls = <<>>
    /\ printed = <<>>
    /\ report = PyNone

\* The server after a call: its statements received, its cursors opened and closed.
ServerAfter(c) ==
    [ statements |-> server.statements \o c.stmts,
      cursors |-> server.cursors + c.opened - c.closed ]

(***************************************************************************)
(* main() and execute_all_queries, step by step.                           *)
(***************************************************************************)
\* main gives the executor statement_timeout_ms None (no seconds given, or
\* not a positive number), int(timeout_sec * 1000) for a positive number of
\* seconds, which is 0 under one millisecond; the runs with 0 are of one round.
Init ==
    /\ pc = "main"
    /\ argv \in [ iterations : 0..MaxRounds,
                  mode : Modes,
                  store_full_plan_json : {FALSE},
                  statement_timeout_ms : {PyNone, PyInt(5000)} ]
               \cup [ iterations : {1},
                      mode : Modes,
                      store_full_plan_json : {FALSE},
                      statement_timeout_ms : {PyInt(0)} ]
    /\ directory \in {PyNone} \cup {PyList(<<Directory(n)>>) : n \in 0..MaxFiles}
                       \cup {PyList(<<RoundNamedDirectory>>)}
    /\ NewExecutor
    /\ Idle
    /\ plan_json = PyNone
    /\ plan_summary = PyNone
    /\ explain_options = ExplainOptionsOf(PyNone)
    /\ explain_sql = PyNone
    /\ best_combo = PyNone
    /\ scenarios = <<>>
    /\ returned = PyNone

\* main without its test of the directory.
CheckDirectoryNot ==
    /\ pc = "main"
    /\ pc' = "execute_all_queries"
    /\ printed' = printed
    /\ UNCHANGED <<argv, directory, connection, results, round_times, connect_time,
                   loop, now, server, calls, report, plan_json, plan_summary,
                   explain_options, explain_sql, best_combo, scenarios, returned>>

\* main: `if not os.path.exists(SQL_DIRECTORY): sys.exit(1)`, else the
\* executor is built and the try block entered.
CheckDirectory ==
    /\ pc = "main"
    /\ pc' = IF directory = PyNone THEN "exit" ELSE "execute_all_queries"
    /\ printed' = IF directory = PyNone
                  THEN Append(printed, [msg |-> "Error: SQL directory not found"])
                  ELSE printed
    /\ UNCHANGED <<argv, directory, connection, results, round_times, connect_time,
                   loop, now, server, calls, report, plan_json, plan_summary,
                   explain_options, explain_sql, best_combo, scenarios, returned>>

\* The inner loop stopping one file short.
LoopPositionOneShort(l) ==
    IF l.r > argv.iterations THEN "finish"
    ELSE IF l.i >= Len(l.sql_files) THEN "end_round"
    ELSE "dispatch"

\* The position after the loop head `for r in range(1, iterations + 1)` and
\* `for i, s in enumerate(sql_files, 1)` for the loop state l.
LoopPosition(l) ==
    IF l.r > argv.iterations THEN "finish"
    ELSE IF l.i > Len(l.sql_files) THEN "end_round"
    ELSE "dispatch"

\* execute_all_queries going on whatever connect() returned.
ConnectOkUnchecked(c) == TRUE

\* `ok, connect_time = self.connect()`, `if not ok: return`
ConnectOk(c) == c.ok

\* execute_all_queries up to the first round: connect, load_sql_files; a
\* KeyboardInterrupt during connect() goes to main's handler.
BeginRun ==
    /\ pc = "execute_all_queries"
    /\ \E how \in ConnectHows(argv.statement_timeout_ms) :
         LET c == connect(connection, argv.statement_timeout_ms, how, 7)
             l == [ sql_files |-> load_sql_files(Val(directory)[1]),
                    r |-> 1, i |-> 1, round_times |-> <<>>, r0 |-> now + 7 ]
         IN  /\ connection' = c.connection
             /\ server' = ServerAfter(c)
             /\ now' = now + 7
             /\ printed' =
                  printed
                    \o (IF c.failed THEN <<[msg |-> "Connection failed"]>> ELSE <<>>)
                    \o (IF c.raised # "none"
                        THEN <<[msg |-> "Interrupted by user."]>> ELSE <<>>)
             /\ IF c.raised # "none"
                THEN /\ connect_time' = connect_time
                     /\ loop' = loop
                     /\ pc' = "finally"
                ELSE IF ConnectOk(c)
                THEN /\ connect_time' = c.dt
                     /\ loop' = l
                     /\ pc' = LoopPosition(l)
                ELSE /\ connect_time' = connect_time
                     /\ loop' = loop
                     /\ pc' = "save_results"
    /\ UNCHANGED <<argv, directory, results, round_times, calls, report,
                   plan_json, plan_summary,
                   explain_options, explain_sql, best_combo, scenarios, returned>>

\* The call execute_all_queries makes for one query, by the run's mode.
Dispatch(drv, query, query_name) ==
    IF argv.mode = "explain"
    THEN execute_query_with_explain(connection, drv, query, query_name,
                                    argv.store_full_plan_json)
    ELSE IF argv.mode = "detailed"
    THEN execute_query_with_detailed_timing(connection, drv, query, query_name)
    ELSE execute_query_simple(connection, drv, query, query_name)

\* One pass of the inner loop once the call has returned c (or raised): the
\* result is appended.  An exception leaving the call leaves
\* execute_all_queries too, and main prints it; a KeyboardInterrupt in the
\* print of "Error during run" leaves main with nothing printed.
AfterDispatch(c) ==
    /\ server' = ServerAfter(c)
    /\ now' = now + c.elapsed
    /\ IF c.raised = "none"
       THEN /\ results' = Append(results, c.ret)
            /\ loop' = [loop EXCEPT !.i = loop.i + 1]
            /\ pc' = LoopPosition([loop EXCEPT !.i = loop.i + 1])
            /\ printed' = printed
       ELSE /\ results' = results
            /\ loop' = loop
            /\ pc' = "finally"
            /\ IF c.raised = "KeyboardInterrupt"
               THEN printed' = Append(printed, [msg |-> "Interrupted by user."])
               ELSE \E interrupted \in BOOLEAN :
                      printed' = IF interrupted THEN printed
                                 ELSE Append(printed, [msg |-> "Error during run"])

\* One pass of the inner loop: the query is dispatched under its qualified name.
DispatchQuery ==
    /\ pc = "dispatch"
    /\ \E fail \in {"none", "execute", "interrupt", "interrupt_print"} :
         /\ calls' = Append(calls, RunDriver(fail, loop.i, loop.r))
         /\ AfterDispatch(Dispatch(RunDriver(fail, loop.i, loop.r),
                                   loop.sql_files[loop.i].content,
                                   QueryName(loop.sql_files[loop.i].filename, loop.r)))
    /\ UNCHANGED <<argv, directory, connection, round_times, connect_time, report,
                   plan_json, plan_summary,
                   explain_options, explain_sql, best_combo, scenarios, returned>>

\* The counts printed after round r: the results of the given status whose
\* query_name holds f"_round{r}".
RoundCount(rs, status, r) ==
    Cardinality({j \in 1..Len(rs) :
                    rs[j].status = status /\ Contains(rs[j].query_name, RoundSuffix(r))})

\* The end of a round: its time is appended and its counts are printed.
EndRound ==
    /\ pc = "end_round"
    /\ LET rt == now - loop.r0
           l == [loop EXCEPT !.round_times = Append(loop.round_times, rt),
                             !.r = loop.r + 1, !.i = 1, !.r0 = now]
       IN  /\ loop' = l
           /\ pc' = LoopPosition(l)
           /\ printed' = Append(printed,
                  [ msg |-> "Round done",
                    round |-> loop.r,
                    success |-> RoundCount(results, "success", loop.r),
                    error |-> RoundCount(results, "error", loop.r) ])
    /\ UNCHANGED <<argv, directory, connection, results, round_times, connect_time,
                   now, server, calls, report, plan_json, plan_summary,
                   explain_options, explain_sql, best_combo, scenarios, returned>>

\* The statistics after the rounds (avg = total / iterations raises
\* ZeroDivisionError for no round, which main prints unless a
\* KeyboardInterrupt arrives in that print), the summary printed, then
\* self.round_times and disconnect(); a KeyboardInterrupt that arrives once
\* the summary is printed finds self.round_times not yet assigned and the
\* session not yet closed.
FinishRun ==
    /\ pc = "finish"
    /\ \E interrupted \in BOOLEAN :
         IF argv.iterations = 0
         THEN /\ pc' = "finally"
              /\ printed' = IF interrupted THEN printed
                            ELSE Append(printed, [msg |-> "Error during run"])
              /\ UNCHANGED <<round_times, connection>>
         ELSE LET summary == [ msg |-> "Summary",
                               total |-> SumSeq(loop.round_times),
                               avg |-> Rat(SumSeq(loop.round_times), argv.iterations),
                               min |-> MinSeq(loop.round_times),
                               max |-> MaxSeq(loop.round_times),
                               sd |-> StdevSquared(loop.round_times) ]
              IN  IF interrupted
                  THEN /\ pc' = "finally"
                       /\ printed' = printed \o <<summary, [msg |-> "Interrupted by user."]>>
                       /\ UNCHANGED <<round_times, connection>>
                  ELSE /\ pc' = "save_results"
                       /\ printed' = Append(printed, summary)
                       /\ round_times' = loop.round_times
                       /\ connection' = disconnect(connection)
    /\ UNCHANGED <<argv, directory, results, connect_time, loop, now, server, calls,
                   report, plan_json, plan_summary,
                   explain_options, explain_sql, best_combo, scenarios, returned>>

\* The output file opened for writing and left without a JSON document.
NoDocument == PyStr(<<>>)

\* Where a KeyboardInterrupt may find save_results(): nowhere ("none"), in
\* json.dump (the file is left without a document), in the print of the
\* outcome or at the exit of the `with` before it ("print": nothing of the
\* outcome is printed), or as that print returns ("return").
SaveInterrupts == {"none", "json.dump", "print", "return"}

\* What save_results() leaves once save_data is built (or building it has
\* raised) and the file is writable or not: the file and the messages; a
\* failure is printed as failure_message.
SaveStep(save_data, writable, interrupt, failure_message) ==
    /\ interrupt = "json.dump" => (writable /\ ~IsRaised(save_data))
    /\ report' = IF writable /\ ~IsRaised(save_data)
                 THEN (IF interrupt = "json.dump" THEN NoDocument ELSE save_data)
                 ELSE report
    /\ printed' =
         printed
           \o (IF interrupt \in {"none", "return"}
               THEN <<[msg |-> IF writable /\ ~IsRaised(save_data)
                               THEN "Results saved" ELSE failure_message]>>
               ELSE <<>>)
           \o (IF interrupt # "none" THEN <<[msg |-> "Interrupted by user."]>> ELSE <<>>)

\* save_results() without its `except Exception`: a failure leaves it and is
\* caught by main.
SaveResultsUncaught ==
    /\ pc = "save_results"
    /\ \E writable \in BOOLEAN, interrupt \in SaveInterrupts :
         SaveStep(SaveData(results, round_times, connect_time), writable, interrupt,
                  "Error during run")
    /\ pc' = "finally"
    /\ UNCHANGED <<argv, directory, connection, results, round_times, connect_time,
                   loop, now, server, calls, plan_json, plan_summary,
                   explain_options, explain_sql, best_combo, scenarios, returned>>

\* save_results(): the report is written, unless building or writing it
\* fails, which is caught and printed; a KeyboardInterrupt is not caught
\* and goes to main's handler, the file as it was left.
SaveResults ==
    /\ pc = "save_results"
    /\ \E writable \in BOOLEAN, interrupt \in SaveInterrupts :
         SaveStep(SaveData(results, round_times, connect_time), writable, interrupt,
                  "Save failed")
    /\ pc' = "finally"
    /\ UNCHANGED <<argv, directory, connection, results, round_times, connect_time,
                   loop, now, server, calls, plan_json, plan_summary,
                   explain_options, explain_sql, best_combo, scenarios, returned>>

\* A KeyboardInterrupt between two steps of the try block of main.
Interrupt ==
    /\ pc \in {"execute_all_queries", "dispatch", "end_round", "finish", "save_results"}
    /\ pc' = "finally"
    /\ printed' = Append(printed, [msg |-> "Interrupted by user."])
    /\ UNCHANGED <<argv, directory, connection, results, round_times, connect_time,
                   loop, now, server, calls, report, plan_json, plan_summary,
                   explain_options, explain_sql, best_combo, scenarios, returned>>

\* main: `finally: executor.disconnect()`.
Finally ==
    /\ pc = "finally"
    /\ connection' = disconnect(connection)
    /\ pc' = "done"
    /\ UNCHANGED <<argv, directory, results, round_times, connect_time, loop, now,
                   server, calls, printed, report, plan_json, plan_summary,
                   explain_options, explain_sql, best_combo, scenarios, returned>>

Next ==
    \/ CheckDirectory
    \/ BeginRun
    \/ DispatchQuery
    \/ EndRound
    \/ FinishRun
    \/ SaveResults
    \/ Interrupt
    \/ Finally

Spec == Init /\ [][Next]_vars

(***************************************************************************)
(* The executor used on its own: connect, disconnect and one dispatch, in  *)
(* any order, under any driver behaviour; a statement timeout is           *)
(* configured in the simple mode only.                                     *)
(***************************************************************************)
InitCalls ==
    /\ pc = "caller"
    /\ argv \in [ iterations : {1},
                  mode : Modes,
                  store_full_plan_json : BOOLEAN,
                  statement_timeout_ms : {PyNone} ]
               \cup [ iterations : {1},
                      mode : {""},
                      store_full_plan_json : {FALSE},
                      statement_timeout_ms : {PyInt(5000)} ]
    /\ directory = PyNone
    /\ NewExecutor
    /\ Idle
    /\ plan_json = PyNone
    /\ plan_summary = PyNone
    /\ explain_options = ExplainOptionsOf(PyNone)
    /\ explain_sql = PyNone
    /\ best_combo = PyNone
    /\ scenarios = <<>>
    /\ returned = PyNone

\* connect() called by the caller, on an executor in any state: it takes
\* time, a failure is printed, a KeyboardInterrupt leaves it (the caller
\* prints nothing of it).
CallConnect ==
    /\ pc = "caller"
    /\ now < 7 * MaxConnects
    /\ \E how \in ConnectHows(argv.statement_timeout_ms) :
         LET c == connect(connection, argv.statement_timeout_ms, how, 7)
         IN  /\ connection' = c.connection
             /\ server' = ServerAfter(c)
             /\ now' = now + 7
             /\ pc' = IF c.raised # "none" THEN "raised" ELSE pc
             /\ printed' = IF c.failed
                           THEN Append(printed, [msg |-> "Connection failed"])
                           ELSE printed
    /\ UNCHANGED <<argv, directory, results, round_times, connect_time, loop,
                   calls, report, plan_json, plan_summary,
                   explain_options, explain_sql, best_combo, scenarios, returned>>

\* disconnect() called by the caller; a KeyboardInterrupt in the print that
\* follows close() leaves it.
CallDisconnect ==
    /\ pc = "caller"
    /\ connection' = disconnect(connection)
    /\ \E interrupted \in BOOLEAN :
         pc' = IF interrupted /\ connection # "None" THEN "raised" ELSE pc
    /\ UNCHANGED <<argv, directory, results, round_times, connect_time, loop, now,
                   server, calls, printed, report, plan_json, plan_summary,
                   explain_options, explain_sql, best_combo, scenarios, returned>>

\* The caller once the dispatch has returned c (or raised): the record is
\* the caller's, self.results is not touched.
AfterCall(c) ==
    /\ server' = ServerAfter(c)
    /\ now' = now + c.elapsed
    /\ IF c.raised = "none"
       THEN returned' = c.ret /\ pc' = "returned"
       ELSE returned' = returned /\ pc' = "raised"

CallDispatch ==
    /\ pc = "caller"
    /\ \E drv \in Drivers :
         /\ calls' = Append(calls, drv)
         /\ AfterCall(Dispatch(drv, <<"s", "1">>, QueryName(<<"q", "1">> \o SqlSuffix, 1)))
    /\ UNCHANGED <<argv, directory, connection, results, round_times, connect_time,
                   loop, printed, report, plan_json, plan_summary,
                   explain_options, explain_sql, best_combo, scenarios>>

NextCalls ==
    \/ CallConnect
    \/ CallDisconnect
    \/ CallDispatch

SpecCalls == InitCalls /\ [][NextCalls]_vars

(***************************************************************************)
(* summarize_plan on its own, over the plan documents.                     *)
(***************************************************************************)
InitPlan ==
    /\ pc = "summarize"
    /\ argv = [iterations |-> 1, mode |-> "explain", store_full_plan_json |-> FALSE,
               statement_timeout_ms |-> PyNone]
    /\ directory = PyNone
    /\ NewExecutor
    /\ Idle
    /\ plan_json \in PlanDocuments
    /\ plan_summary = PyNone
    /\ explain_options = ExplainOptionsOf(PyNone)
    /\ explain_sql = PyNone
    /\ best_combo = PyNone
    /\ scenarios = <<>>
    /\ returned = PyNone

Summarize ==
    /\ pc = "summarize"
    /\ plan_summary' = summarize_plan(plan_json)
    /\ pc' = "summarized"
    /\ UNCHANGED <<argv, directory, connection, results, round_times, connect_time,
                   loop, now, server, calls, printed, report, plan_json,
                   explain_options, explain_sql, best_combo, scenarios, returned>>

NextPlan == Summarize

SpecPlan == InitPlan /\ [][NextPlan]_vars

(***************************************************************************)
(* _build_explain_sql on its own, over the option mappings.                *)
(***************************************************************************)
InitExplain ==
    /\ pc = "build"
    /\ argv \in [ iterations : {1}, mode : {"explain"}, store_full_plan_json : {FALSE},
                  statement_timeout_ms : {PyNone}, query : Queries ]
    /\ directory = PyNone
    /\ NewExecutor
    /\ Idle
    /\ plan_json = PyNone
    /\ plan_summary = PyNone
    /\ explain_options \in {ExplainOptionsOf(given) : given \in {PyNone} \cup OptionMappings}
    /\ explain_sql = PyNone
    /\ best_combo = PyNone
    /\ scenarios = <<>>
    /\ returned = PyNone

BuildExplainSql ==
    /\ pc = "build"
    /\ explain_sql' = PyStr(build_explain_sql(explain_options, argv.query))
    /\ pc' = "built"
    /\ UNCHANGED <<argv, directory, connection, results, round_times, connect_time,
                   loop, now, server, calls, printed, report, plan_json, plan_summary,
                   explain_options, best_combo, scenarios, returned>>

NextExplain == BuildExplainSql

SpecExplain == InitExplain /\ [][NextExplain]_vars

(***************************************************************************)
(* map_scenario on its own: applied to best_combo, then to its own result. *)
(***************************************************************************)
InitScenario ==
    /\ pc = "map"
    /\ argv = [iterations |-> 1, mode |-> "", store_full_plan_json |-> FALSE,
               statement_timeout_ms |-> PyNone]
    /\ directory = PyNone
    /\ NewExecutor
    /\ Idle
    /\ plan_json = PyNone
    /\ plan_summary = PyNone
    /\ explain_options = ExplainOptionsOf(PyNone)
    /\ explain_sql = PyNone
    /\ best_combo \in BestCombos
    /\ scenarios = <<>>
    /\ returned = PyNone

MapScenario ==
    /\ pc = "map"
    /\ scenarios' = <<map_scenario(best_combo)>>
    /\ pc' = "mapped"
    /\ UNCHANGED <<argv, directory, connection, results, round_times, connect_time,
                   loop, now, server, calls, printed, report, plan_json, plan_summary,
                   explain_options, explain_sql, best_combo, returned>>

MapScenarioAgain ==
    /\ pc = "mapped"
    /\ scenarios' = Append(scenarios, map_scenario(scenarios[1]))
    /\ pc' = "remapped"
    /\ UNCHANGED <<argv, directory, connection, results, round_times, connect_time,
                   loop, now, server, calls, printed, report, plan_json, plan_summary,
                   explain_options, explain_sql, best_combo, returned>>

NextScenario ==
    \/ MapScenario
    \/ MapScenarioAgain

SpecScenario == InitScenario /\ [][NextScenario]_vars

(***************************************************************************)
(* Properties of a run (Spec).                                             *)
(***************************************************************************)
\* execute_all_queries ran its rounds to the end.
RunCompleted == \E j \in 1..Len(printed) : printed[j].msg = "Summary"

\* The run was stopped by a KeyboardInterrupt.
RunInterrupted == \E j \in 1..Len(printed) : printed[j].msg = "Interrupted by user."

\* C1: in every mode, a query whose execution raises a database error gives
\* a result of status error at its place in the result sequence, the loop
\* goes on to the next query and round (the results keep pace with the loop
\* position), and no dispatched query ends the run with an error.
C1_QueryErrorBecomesResult ==
    /\ \A k \in 1..Len(calls) :
         calls[k].fail = "execute" =>
           /\ k <= Len(results)
           /\ results[k].status = "error"
           /\ "error" \in DOMAIN results[k]
    /\ pc \in {"dispatch", "end_round", "finish"} =>
         /\ Len(results) = (loop.r - 1) * Len(loop.sql_files) + (loop.i - 1)
         /\ Len(calls) = Len(results)
    /\ \A j \in 1..Len(printed) : printed[j].msg = "Error during run" => calls = <<>>

\* A failed first query, followed by a successful one in the same round and
\* by the whole next round.
C1_Witness ==
    /\ pc = "finish"
    /\ Len(loop.sql_files) >= 2
    /\ Len(results) = 2 * Len(loop.sql_files)
    /\ results[1].status = "error"
    /\ results[2].status = "success"
    /\ calls[1].fail = "execute"

\* The name of the k-th query file of the run's directory, in file order:
\* q1.sql, q2.sql, ..., or q1.sql, q_round2.sql.
FileInOrder(k) ==
    IF directory = PyList(<<RoundNamedDirectory>>) /\ k = 2
    THEN <<"q", "_", "r", "o", "u", "n", "d", "2", ".", "s", "q", "l">>
    ELSE <<"q">> \o Digits(k) \o <<".", "s", "q", "l">>

\* execute_all_queries has run its rounds and returned to main: the summary
\* is printed and main is at save_results, or save_results has left its
\* file or its message.
RunReturned ==
    /\ RunCompleted
    /\ \/ pc = "save_results"
       \/ report # PyNone
       \/ \E j \in 1..Len(printed) : printed[j].msg \in {"Results saved", "Save failed"}

\* C2: once execute_all_queries has returned from a run of N rounds over Q
\* records there are Q*N results and as many dispatches, one per (record,
\* round), round after round and in file order within a round, each named
\* <filename>_round<r>, and N round times; the report counts them all.
C2_RoundMajorResults ==
    /\ RunReturned =>
         LET Q == Len(loop.sql_files)
             N == argv.iterations
         IN  /\ Len(results) = Q * N
             /\ Len(calls) = Q * N
             /\ Len(round_times) = N
             /\ \A r \in 1..N, k \in 1..Q :
                  /\ results[(r - 1) * Q + k].query_name =
                       FileInOrder(k) \o <<"_", "r", "o", "u", "n", "d">> \o Digits(r)
                  /\ calls[(r - 1) * Q + k].d[2] = 10 * k + r
                  /\ calls[(r - 1) * Q + k].rows = PyList(<<Row(k)>>)
    /\ Kind(report) = "dict" =>
         /\ Val(report).summary.total_queries = Len(results)
         /\ (\A k \in 1..Len(results) : results[k].status = "success") =>
              Val(report).summary.successful_queries = Len(results)

\* Three files, two rounds, simple mode, all queries succeeding.
C2_Witness ==
    /\ pc = "done"
    /\ argv.mode = ""
    /\ argv.iterations = 2
    /\ Len(loop.sql_files) = 3
    /\ Len(results) = 6
    /\ \A k \in 1..6 : results[k].status = "success"
    /\ Len(round_times) = 2
    /\ Kind(report) = "dict"
    /\ Val(report).summary.total_queries = 6
    /\ Val(report).summary.successful_queries = 6

\* C3: after an interrupt that arrives while the rounds are running, the
\* connection is not left open and the results collected so far are in a
\* report.
C3_InterruptPersistsResults ==
    (pc = "done" /\ RunInterrupted /\ loop.r \in 1..argv.iterations) =>
       /\ connection # "open"
       /\ Kind(report) = "dict"
       /\ Val(report).query_results = results

RECURSIVE SuccessTime(_)
\* The execution_time of the successful results of rs, summed.
SuccessTime(rs) ==
    IF Len(rs) = 0 THEN 0
    ELSE (IF Head(rs).status = "success" THEN Head(rs).execution_time ELSE 0)
           + SuccessTime(Tail(rs))

\* C4: in the report, total_execution_time is the sum of execution_time
\* over the successful results and average_query_time is that total divided
\* by the number of successful results.
C4_AverageOverSuccessful ==
    Kind(report) = "dict" =>
       LET rs == Val(report).query_results
           n == Cardinality({j \in 1..Len(rs) : rs[j].status = "success"})
       IN  /\ Val(report).summary.total_execution_time = SuccessTime(rs)
           /\ n > 0 => RatEq(Val(report).summary.average_query_time,
                             Rat(SuccessTime(rs), n))

\* C6: in plan mode, a query whose plan document the summarizer fails on
\* still gives a result, of status success, whose plan_summary holds an
\* error entry; nothing is raised to the run.
C6_SummaryFailureIsContained ==
    argv.mode = "explain" =>
      /\ \A k \in 1..Len(calls) :
           ( /\ calls[k].fail = "none"
             /\ \E m \in 1..Len(MalformedDocuments) :
                  calls[k].explain_rows = PyList(<<PyList(<<MalformedDocuments[m]>>)>>) ) =>
             /\ k <= Len(results)
             /\ results[k].status = "success"
             /\ "error" \notin DOMAIN results[k]
             /\ Kind(results[k].plan_summary) = "dict"
             /\ "error" \in DOMAIN Val(results[k].plan_summary)
             /\ (k < Len(calls) \/ pc \in {"dispatch", "end_round", "finish", "save_results"}
                   \/ RunCompleted \/ RunInterrupted)
      /\ \A j \in 1..Len(printed) : printed[j].msg # "Error during run" \/ argv.iterations = 0

\* A malformed document for the second query of the first round, its result
\* a success with an error summary, and the third query dispatched after it.
C6_Witness ==
    /\ argv.mode = "explain"
    /\ Len(results) >= 3
    /\ calls[2].explain_rows = PyList(<<PyList(<<MalformedDocuments[1]>>)>>)
    /\ results[2].status = "success"
    /\ "error" \in DOMAIN Val(results[2].plan_summary)
    /\ results[3].status = "success"
    /\ "error" \notin DOMAIN Val(results[3].plan_summary)

(***************************************************************************)
(* Properties of a single dispatch (SpecCalls).                            *)
(***************************************************************************)
\* The time of the phases of call k that were run, the failing one included.
PhaseTime(k) ==
    LET d == calls[k].d
        fail == IF connection = "closed" THEN "cursor" ELSE calls[k].fail
    IN  CASE fail \in {"cursor", "cursor_interrupt_print"} -> d[1]
          [] fail \in {"execute", "interrupt", "execute_interrupt_print"} -> d[1] + d[2]
          [] fail \in {"fetch", "fetch_interrupt_print"} -> d[1] + d[2] + d[3]
          [] OTHER -> d[1] + d[2] + d[3] + d[4]

\* The dispatch returned a record, and it is an execution result.
Executed == pc = "returned" /\ "status" \in DOMAIN returned

\* C5 as stated: in detailed mode the execution_time of every result,
\* whatever its status, is the sum of the phase times and not the time
\* between the outer clock reads.
C5_TimeIsSumOfPhases ==
    (argv.mode = "detailed" /\ Executed) =>
      returned.execution_time = PhaseTime(1)

\* C5, amended: in detailed mode the execution_time of every result of
\* status success is the sum of its four phase times, which are the times
\* the four phases took.
C5_SuccessTimeIsSumOfPhases ==
    (argv.mode = "detailed" /\ Executed /\ returned.status = "success") =>
          /\ returned.detailed_timing =
               [ cursor_creation_time |-> calls[1].d[1],
                 query_execution_time |-> calls[1].d[2],
                 result_fetch_time |-> calls[1].d[3],
                 column_info_time |-> calls[1].d[4] ]
          /\ returned.execution_time =
               returned.detailed_timing.cursor_creation_time
                 + returned.detailed_timing.query_execution_time
                 + returned.detailed_timing.result_fetch_time
                 + returned.detailed_timing.column_info_time

\* A successful detailed result whose time differs from the time the call took.
C5_Witness ==
    /\ argv.mode = "detailed"
    /\ pc = "returned"
    /\ Executed
    /\ returned.status = "success"
    /\ calls[1].gap > 0
    /\ returned.execution_time = 26
    /\ now # returned.execution_time

\* C8: in plan mode a result of status success has a plan_summary, no rows
\* and no column names, and the server received one statement for it, the
\* EXPLAIN of the query.
C8_PlanSuccessShape ==
    (argv.mode = "explain" /\ Executed /\ returned.status = "success") =>
          /\ "plan_summary" \in DOMAIN returned
          /\ Kind(returned.plan_summary) = "dict"
          /\ returned.results = PyNone
          /\ returned.column_names = PyNone
          /\ server.statements =
               <<"EXPLAIN (ANALYZE, BUFFERS, VERBOSE false, COSTS, TIMING, FORMAT JSON) s1">>

\* A successful plan-mode result for a query that returns rows.
C8_Witness ==
    /\ argv.mode = "explain"
    /\ pc = "returned"
    /\ Executed
    /\ returned.status = "success"
    /\ "complete_plan_tree" \in DOMAIN Val(returned.plan_summary)
    /\ Len(Val(calls[1].rows)) > 0
    /\ Len(server.statements) = 1

\* C9: in plan mode a call that fails with a database error gives a result
\* of status error with the error text and without plan_summary, whose
\* execution_time is the time the call took; the query itself is never sent.
C9_PlanErrorShape ==
    ( /\ argv.mode = "explain"
      /\ Len(calls) = 1
      /\ connection # "None"
      /\ (connection = "closed" \/ calls[1].fail \in {"cursor", "execute", "fetch"}) ) =>
        /\ pc = "returned"
        /\ returned.status = "error"
        /\ returned.error \in
             { PyStr("EXPLAIN failed: connection already closed"),
               PyStr("EXPLAIN failed: relation does not exist"),
               PyStr("EXPLAIN failed: no results to fetch") }
        /\ "plan_summary" \notin DOMAIN returned
        /\ returned.execution_time = PhaseTime(1)
        /\ \E n \in 0..MaxConnects : now = 7 * n + returned.execution_time
        /\ Len(server.statements) <= 1
        /\ \A j \in 1..Len(server.statements) : server.statements[j] # "s1"

\* A plan-mode call on a missing relation that took some time.
C9_Witness ==
    /\ argv.mode = "explain"
    /\ pc = "returned"
    /\ calls[1].fail = "execute"
    /\ connection = "open"
    /\ returned.status = "error"
    /\ returned.execution_time = 21
    /\ Len(server.statements) = 1

\* The Execution Time the plan document of call k supplies, None when it
\* supplies none.
DocumentTime(k) ==
    LET doc == Val(Val(calls[k].explain_rows)[1])[1]
        top == IF Kind(doc) = "list" /\ Len(Val(doc)) > 0 THEN Val(doc)[1] ELSE doc
    IN  IF Kind(top) = "dict" THEN Get(Val(top), "Execution Time") ELSE PyNone

\* C10 as stated: in plan mode the execution_time of a successful result is
\* the document's Execution Time / 1000 whenever that is a number, and the
\* time the call took otherwise.
C10_ServerTimeWhenNumeric ==
    (argv.mode = "explain" /\ Executed /\ returned.status = "success") =>
          returned.execution_time =
            IF Kind(DocumentTime(1)) \in {"int", "bool"}
            THEN 1000 * (IF Kind(DocumentTime(1)) = "bool"
                         THEN (IF Val(DocumentTime(1)) THEN 1 ELSE 0)
                         ELSE Val(DocumentTime(1)))
            ELSE PhaseTime(1)

\* C10, amended: the execution_time of a successful plan-mode result is the
\* document's Execution Time / 1000 whenever that is a number and the
\* summary was built (it holds no error entry), and the time the call took
\* otherwise.
C10_ServerTimeWhenSummarized ==
    (argv.mode = "explain" /\ Executed /\ returned.status = "success") =>
          returned.execution_time =
            IF /\ Kind(DocumentTime(1)) \in {"int", "bool"}
               /\ "error" \notin DOMAIN Val(returned.plan_summary)
            THEN 1000 * (IF Kind(DocumentTime(1)) = "bool"
                         THEN (IF Val(DocumentTime(1)) THEN 1 ELSE 0)
                         ELSE Val(DocumentTime(1)))
            ELSE PhaseTime(1)

\* A successful plan-mode result that carries the server's 12 ms, the call
\* having taken another time.
C10_Witness ==
    /\ argv.mode = "explain"
    /\ pc = "returned"
    /\ Executed
    /\ returned.status = "success"
    /\ DocumentTime(1) = PyInt(12)
    /\ returned.execution_time = 12000
    /\ now # 12000

(***************************************************************************)
(* Properties of the plan summary (SpecPlan).                              *)
(***************************************************************************)
\* The value of counter key that a decoded node carries, 0 when it has none.
NodeCounter(t, key) ==
    LET buffers == Val(t)["buffers"]
    IN  IF Kind(buffers) = "dict" /\ key \in DOMAIN Val(buffers)
           /\ Kind(Val(buffers)[key]) \in {"int", "bool"}
        THEN IntOf(Val(buffers)[key])
        ELSE 0

RECURSIVE TreeSum(_, _)
RECURSIVE TreeSumAll(_, _)
RECURSIVE WorkerSumAll(_, _)
\* The counter summed over the decoded tree t: its node, its children and
\* the plan trees of its workers.
TreeSum(t, key) ==
    NodeCounter(t, key)
      + TreeSumAll(Val(Val(t)["children"]), key)
      + (IF "workers" \in DOMAIN Val(t) THEN WorkerSumAll(Val(Val(t)["workers"]), key) ELSE 0)

TreeSumAll(ts, key) ==
    IF Len(ts) = 0 THEN 0 ELSE TreeSum(Head(ts), key) + TreeSumAll(Tail(ts), key)

WorkerSumAll(ws, key) ==
    IF Len(ws) = 0 THEN 0
    ELSE (IF "PlanTree" \in DOMAIN Val(Head(ws)) THEN TreeSum(Val(Head(ws))["PlanTree"], key)
          ELSE 0) + WorkerSumAll(Tail(ws), key)

\* The aggregated value of counter key in a summary, 0 when it has none.
Aggregated(summary, key) ==
    IF Kind(summary["buffers"]) = "dict" /\ key \in DOMAIN Val(summary["buffers"])
    THEN IntOf(Val(summary["buffers"])[key])
    ELSE 0

\* C7: for each buffer counter, the aggregated value of the summary is the
\* sum of the counter over every node of the decoded tree, the plan trees of
\* the workers included.
C7_BuffersSumOverDecodedTree ==
    (pc = "summarized" /\ "complete_plan_tree" \in DOMAIN Val(plan_summary)) =>
       \A key \in BufferKeySet :
          Aggregated(Val(plan_summary), key)
            = TreeSum(Val(plan_summary)["complete_plan_tree"], key)

RECURSIVE WellFormedNode(_)
\* A document node of the expected shape: an object whose "Plans", when
\* given, is null or an array of such nodes, and whose "Workers", when given,
\* is an array of objects (their "Plan", when given, such a node).
WellFormedNode(n) ==
    /\ Kind(n) = "dict"
    /\ "Plans" \in DOMAIN Val(n) =>
         \/ Kind(Val(n)["Plans"]) = "None"
         \/ /\ Kind(Val(n)["Plans"]) = "list"
            /\ \A j \in 1..Len(Val(Val(n)["Plans"])) : WellFormedNode(Val(Val(n)["Plans"])[j])
    /\ "Workers" \in DOMAIN Val(n) =>
         /\ Kind(Val(n)["Workers"]) = "list"
         /\ \A j \in 1..Len(Val(Val(n)["Workers"])) :
              LET w == Val(Val(n)["Workers"])[j]
              IN  /\ Kind(w) = "dict"
                  /\ "Plan" \in DOMAIN Val(w) =>
                       (Kind(Val(w)["Plan"]) = "None" \/ WellFormedNode(Val(w)["Plan"]))

\* The children a document node declares.
DeclaredChildren(n) ==
    IF "Plans" \in DOMAIN Val(n) /\ Kind(Val(n)["Plans"]) = "list"
    THEN Val(Val(n)["Plans"]) ELSE <<>>

RECURSIVE Decoded(_, _)
\* t is the decoding of the document node n: every plain field of t is the
\* document's entry or None when the document has none, and the children of
\* t are the decodings of the declared children of n, one for one, in order.
Decoded(n, t) ==
    /\ Kind(t) = "dict"
    /\ \A j \in 1..Len(TreeFields) :
         /\ TreeFields[j][1] \in DOMAIN Val(t)
         /\ Val(t)[TreeFields[j][1]] =
              (IF TreeFields[j][2] \in DOMAIN Val(n) THEN Val(n)[TreeFields[j][2]] ELSE PyNone)
    /\ "children" \in DOMAIN Val(t)
    /\ Kind(Val(t)["children"]) = "list"
    /\ Len(Val(Val(t)["children"])) = Len(DeclaredChildren(n))
    /\ \A j \in 1..Len(DeclaredChildren(n)) :
         Decoded(DeclaredChildren(n)[j], Val(Val(t)["children"])[j])

\* The root plan node of the document summarized.
RootNode == Val(Val(plan_json)[1])["Plan"]

\* The document summarized is a one-object array whose "Plan" is well formed.
WellFormedDocument ==
    /\ Kind(plan_json) = "list"
    /\ Len(Val(plan_json)) = 1
    /\ Kind(Val(plan_json)[1]) = "dict"
    /\ "Plan" \in DOMAIN Val(Val(plan_json)[1])
    /\ WellFormedNode(RootNode)

\* C11: for a well-formed document the decoding does not fail, and the
\* decoded tree has one node per document node: at every depth the children
\* are the decodings of the node's "Plans", as many and in the same order,
\* and a field the document does not give is None in the tree.
C11_TreeMirrorsDocument ==
    (pc = "summarized" /\ WellFormedDocument) =>
       /\ "error" \notin DOMAIN Val(plan_summary)
       /\ Decoded(RootNode, Val(plan_summary)["complete_plan_tree"])

\* The three-level document decoded: two children under the root, three
\* under the first of them, in the document's order.
C11_Witness ==
    /\ pc = "summarized"
    /\ plan_json = DeepDocument
    /\ "complete_plan_tree" \in DOMAIN Val(plan_summary)
    /\ LET t == Val(Val(plan_summary)["complete_plan_tree"])
           first == Val(Val(t["children"])[1])
       IN  /\ Len(Val(t["children"])) = 2
           /\ first["node_type"] = PyStr("Nested Loop")
           /\ Len(Val(first["children"])) = 3
           /\ Val(Val(first["children"])[1])["node_type"] = PyStr("Index Scan")
           /\ Val(Val(first["children"])[3])["node_type"] = PyStr("Bitmap Heap Scan")
           /\ Val(Val(first["children"])[3])["strategy"] = PyNone

\* C12: every record a dispatch operation returns, in whatever state the
\* session is (never connected, open, closed), has a status, which is
\* success or error.
C12_EveryRecordHasStatus ==
    pc = "returned" =>
       /\ "status" \in DOMAIN returned
       /\ returned.status \in {"success", "error"}

\* A message main or the executor printed.
Printed(msg) == \E j \in 1..Len(printed) : printed[j].msg = msg

\* C13: when main returns, on whatever path (the run completed, the
\* connection failed, the statement-timeout setup failed once the session
\* was open, an exception left the round loop, an interrupt), no connection
\* is left open: it is closed, or was never opened.
C13_NoConnectionLeftOpen ==
    pc = "done" =>
      /\ connection # "open"
      /\ (RunCompleted \/ calls # <<>>) => connection = "closed"
      /\ (Printed("Connection failed") /\ server.statements # <<>>) => connection = "closed"

\* main returned after the statement-timeout setup failed on an open session.
C13_Witness ==
    /\ pc = "done"
    /\ Printed("Connection failed")
    /\ server.statements # <<>>
    /\ connection = "closed"
    /\ results = <<>>

\* C14: the disconnect() at the end of main changes nothing and raises
\* nothing when the session was never opened or is closed already.
C14_DisconnectIdempotent ==
    [][ (pc = "finally" /\ pc' = "done" /\ connection \in {"None", "closed"}) =>
           (connection' = connection /\ printed' = printed) ]_vars

\* main returned after a completed run: disconnect() was called by
\* execute_all_queries and again by main.
C14_Witness ==
    /\ pc = "done"
    /\ RunCompleted
    /\ connection = "closed"
    /\ ~Printed("Error during run")

\* C15: in all three modes a query's cursor is released on every way out
\* of its dispatch (a result of status success or error, or an exception
\* passing through), so no cursor is open when a query is about to be
\* dispatched nor once any query has been dispatched.
C15_NoCursorBetweenDispatches ==
    (pc = "dispatch" \/ calls # <<>>) => server.cursors = 0

\* A query failed, the next one succeeded, and a third is about to be
\* dispatched.
C15_Witness ==
    /\ pc = "dispatch"
    /\ Len(results) >= 2
    /\ results[1].status = "error"
    /\ results[2].status = "success"
    /\ server.cursors = 0

\* The results of round r with the given status, the round read from the
\* end of the result's name.
ResultsOfRound(status, r) ==
    {k \in 1..Len(results) :
        results[k].status = status /\ EndsWith(results[k].query_name, RoundSuffix(r))}

\* C16: the success and error counts printed after round r are the numbers
\* of results of round r with status success and error, and sum to the
\* number of query files, whatever the files are named.
C16_RoundCountsAreOfTheRound ==
    \A j \in 1..Len(printed) :
        printed[j].msg = "Round done" =>
          /\ printed[j].success = Cardinality(ResultsOfRound("success", printed[j].round))
          /\ printed[j].error = Cardinality(ResultsOfRound("error", printed[j].round))
          /\ printed[j].success + printed[j].error = Len(loop.sql_files)

\* The entries save_results adds to the summary from the round times.
RoundStatisticNames ==
    {"rounds", "average_round_time", "min_round_time", "max_round_time",
     "total_round_time", "std_deviation"}

\* C17: once the connection attempt has failed, no round is run and no
\* query dispatched (the results and the round times stay empty, the
\* server receives no query, no round or summary line is printed), and a
\* report written afterwards holds no round statistics.
C17_FailedConnectRunsNothing ==
    Printed("Connection failed") =>
      /\ results = <<>>
      /\ round_times = <<>>
      /\ calls = <<>>
      /\ loop = NoLoop
      /\ connect_time = 0
      /\ ~Printed("Round done") /\ ~RunCompleted
      /\ Len(server.statements) <= 1
      /\ Kind(report) = "dict" =>
            /\ DOMAIN Val(report).summary \cap RoundStatisticNames = {}
            /\ Val(report).round_times = <<>>
            /\ Val(report).query_results = <<>>

\* The connection was refused and the report of the empty run was written.
C17_Witness ==
    /\ pc = "done"
    /\ Printed("Connection failed")
    /\ connection = "None"
    /\ Kind(report) = "dict"
    /\ Val(report).summary.total_queries = 0
    /\ "rounds" \notin DOMAIN Val(report).summary

\* The rounds of a run have run to the end, and nothing interrupted it.
RoundsRanToEnd ==
    /\ pc \in {"save_results", "finally", "done"}
    /\ loop # NoLoop
    /\ loop.r > argv.iterations
    /\ ~RunInterrupted

\* The statistics printed at the end of execute_all_queries and those of a
\* written report: the average is the total over the iterations, and the
\* standard deviation is 0 for one iteration.
RoundStatisticsAgree ==
    /\ \A j \in 1..Len(printed) :
          printed[j].msg = "Summary" =>
            /\ printed[j].total = SumSeq(loop.round_times)
            /\ RatEq(printed[j].avg, Rat(printed[j].total, argv.iterations))
            /\ argv.iterations = 1 => RatEq(printed[j].sd, Rat(0, 1))
    /\ (Kind(report) = "dict" /\ "rounds" \in DOMAIN Val(report).summary) =>
          /\ Val(report).summary.total_round_time = SumSeq(round_times)
          /\ RatEq(Val(report).summary.average_round_time,
                   Rat(Val(report).summary.total_round_time, argv.iterations))
          /\ argv.iterations = 1 => RatEq(Val(report).summary.std_deviation, Rat(0, 1))

\* C18: for every requested number of iterations, the rounds once run to
\* the end, the round statistics are computed, with the average the total
\* over the iterations and the standard deviation 0 for one iteration.
C18_RoundAverageForAnyIterations ==
    /\ RoundsRanToEnd => RunCompleted
    /\ RoundStatisticsAgree

\* The text of one option as the options are to be rendered: FORMAT with
\* its value, a toggle that is on by its name in upper case, a toggle that
\* is off by its name in upper case and the word false.
Rendered(k, v) ==
    CASE Upper(k) = "FORMAT" -> "FORMAT " \o Val(v)
      [] Upper(k) # "FORMAT" /\ v = PyBool(TRUE) -> Upper(k)
      [] Upper(k) # "FORMAT" /\ v = PyBool(FALSE) -> Upper(k) \o " false"

RECURSIVE RenderedUpTo(_, _)
\* The first n options rendered, in mapping order, with ", " between them.
RenderedUpTo(options, n) ==
    IF n = 0 THEN ""
    ELSE IF n = 1 THEN Rendered(options[1][1], options[1][2])
    ELSE RenderedUpTo(options, n - 1) \o ", " \o Rendered(options[n][1], options[n][2])

\* C19: for every mapping over the known option names, the text built is
\* EXPLAIN, one parenthesized clause holding the options in mapping order
\* (a toggle that is on by its bare upper-case name, one that is off as
\* NAME false, FORMAT as FORMAT and its value), and then the query text
\* unmodified.
C19_ExplainClauseRendering ==
    pc = "built" =>
      explain_sql = PyStr("EXPLAIN (" \o RenderedUpTo(explain_options, Len(explain_options))
                            \o ") " \o argv.query)

\* A mapping of a toggle that is on, one in lower case that is off, and a
\* format in lower case, rendered before a query text.
C19_Witness ==
    /\ pc = "built"
    /\ explain_options = << <<"ANALYZE", PyBool(TRUE)>>, <<"timing", PyBool(FALSE)>>,
                            <<"format", PyStr("json")>> >>
    /\ explain_sql = PyStr("EXPLAIN (ANALYZE, TIMING false, FORMAT json) SELECT 1")

\* C20: when save_results does not write the report, the failure is caught
\* and printed by save_results itself: no exception reaches main, the run
\* goes on to its end, and the results and the round times held in memory
\* stay as they were.
C20_SaveFailureIsContained ==
    [][ ( /\ pc = "save_results"
          /\ pc' # pc
          /\ report' = report
          /\ printed'[Len(printed')].msg # "Interrupted by user." ) =>
        ( /\ printed' = Append(printed, [msg |-> "Save failed"])
          /\ pc' = "finally"
          /\ results' = results
          /\ round_times' = round_times ) ]_vars

\* A completed run of several queries whose report could not be written:
\* main returned, the results and round times still in memory.
C20_Witness ==
    /\ pc = "done"
    /\ Printed("Save failed")
    /\ ~Printed("Error during run")
    /\ report = PyNone
    /\ Len(results) >= 2
    /\ Len(round_times) = argv.iterations
    /\ connection = "closed"

\* The files of the run's directory, and those among them named *.sql.
FilesOfRun == Val(directory)[1]
SqlFilesOfRun == {f \in FilesOfRun : EndsWith(f.name, SqlSuffix)}

\* A file load_sql_files can make a record of: its name does not start
\* with a dot, it can be read, and it holds more than white space.
Loadable(f) == Head(f.name) # "." /\ f.readable /\ Strip(f.content) # <<>>

\* The records loaded once the run has connected.
Loaded == loop.sql_files

\* The records are in the order of their names, and every round's results
\* follow that same sequence.
LoadedInOrderEveryRound ==
    /\ \A a, b \in 1..Len(Loaded) : a < b => StrLess(Loaded[a].filename, Loaded[b].filename)
    /\ \A k \in 1..Len(results) :
          results[k].query_name =
            QueryName(Loaded[((k - 1) % Len(Loaded)) + 1].filename,
                      ((k - 1) \div Len(Loaded)) + 1)

\* C21: every file of the directory named *.sql is loaded exactly once as
\* one record, the records are sorted by filename, and every round runs
\* them in that order.
C21_EverySqlFileLoadedOnce ==
    loop # NoLoop =>
      /\ \A f \in SqlFilesOfRun :
            Cardinality({a \in 1..Len(Loaded) : Loaded[a].filename = f.name}) = 1
      /\ \A a \in 1..Len(Loaded) : \E f \in SqlFilesOfRun : Loaded[a].filename = f.name
      /\ LoadedInOrderEveryRound

\* C21, for the files that can be loaded: every file named *.sql whose name
\* does not start with a dot, that can be read and that holds more than
\* white space is loaded exactly once as one record holding its stripped
\* text, no other file is loaded, the records are sorted by filename, and
\* every round runs them in that order.
C21_LoadableSqlFilesLoadedOnce ==
    loop # NoLoop =>
      /\ \A f \in SqlFilesOfRun :
            Cardinality({a \in 1..Len(Loaded) : Loaded[a].filename = f.name})
              = (IF Loadable(f) THEN 1 ELSE 0)
      /\ \A a \in 1..Len(Loaded) :
            \E f \in SqlFilesOfRun :
               Loaded[a].filename = f.name /\ Loaded[a].content = Strip(f.content)
      /\ LoadedInOrderEveryRound

\* Two rounds over a directory of three query files beside a text file, an
\* empty, an unreadable and a hidden *.sql file: six results.
C21_Witness ==
    /\ pc = "done"
    /\ RunCompleted
    /\ Cardinality(SqlFilesOfRun) = 6
    /\ Len(Loaded) = 3
    /\ Len(results) = 6

\* C22: when the query directory does not exist the run stops at its start:
\* main goes from its test to exit, no session is opened, the server
\* receives nothing, no round is run, no query is dispatched and no report
\* is written.
C22_MissingDirectoryStopsRun ==
    directory = PyNone =>
      /\ pc \in {"main", "exit"}
      /\ pc = "exit" => Printed("Error: SQL directory not found")
      /\ connection = "None"
      /\ server = NoServer
      /\ loop = NoLoop
      /\ results = <<>> /\ round_times = <<>> /\ calls = <<>>
      /\ report = PyNone
      /\ ~Printed("Round done") /\ ~RunCompleted

\* main has left after finding no directory, with the most rounds requested
\* in plan mode.
C22_Witness ==
    /\ pc = "exit"
    /\ directory = PyNone
    /\ argv.iterations = MaxRounds
    /\ argv.mode = "explain"
    /\ Printed("Error: SQL directory not found")
    /\ connection = "None"

\* The configured statement timeout is a positive number.
PositiveTimeout == Kind(argv.statement_timeout_ms) = "int" /\ Val(argv.statement_timeout_ms) > 0

\* The statements that set a statement timeout.
SetTimeoutStatements == {SetTimeoutSql(ms) : ms \in {0, 5000}}

\* C23: with a positive statement timeout configured, the first statement
\* of an opened session sets it, ahead of every query, and no later
\* statement sets it again; with none or a non-positive one configured, no
\* statement ever sets a timeout.
C23_TimeoutSetOnceAtConnect ==
    /\ (PositiveTimeout /\ connection # "None") =>
          /\ server.statements # <<>>
          /\ server.statements[1] = SetTimeoutSql(Val(argv.statement_timeout_ms))
          /\ \A k \in 2..Len(server.statements) :
                server.statements[k] \notin SetTimeoutStatements
    /\ ~PositiveTimeout =>
          \A k \in 1..Len(server.statements) :
             server.statements[k] \notin SetTimeoutStatements

\* A completed run under a timeout of 5000 ms: the SET statement, then the
\* queries.
C23_Witness ==
    /\ pc = "done"
    /\ RunCompleted
    /\ argv.statement_timeout_ms = PyInt(5000)
    /\ Len(server.statements) >= 3
    /\ server.statements[1] = "SET statement_timeout = '5000ms'"

\* C24: map_scenario gives a label for every input, None and the empty
\* text included; a canonical label is mapped to itself; and mapping the
\* label obtained gives that same label again.
C24_MapScenarioIdempotent ==
    /\ \A k \in 1..Len(scenarios) : scenarios[k] # <<>>
    /\ (Len(scenarios) >= 1 /\ best_combo \in CanonicalLabels) => scenarios[1] = best_combo
    /\ Len(scenarios) = 2 => scenarios[2] = scenarios[1]

\* C25: a dispatch made once disconnect() has closed the session, in any
\* mode and whatever the driver would have answered, raises nothing of its
\* own (only a KeyboardInterrupt of the user leaves it) and returns a
\* result of status error carrying the driver's error: the closed handle is
\* kept, self.results is not touched, and the server receives no statement
\* and has no cursor opened but those of connect().
C25_DispatchAfterDisconnectFails ==
    ( /\ connection = "closed"
      /\ calls # <<>>
      /\ (argv.mode = "explain" \/ calls[1].fail \notin PrintInterrupts) ) =>
      /\ pc = "returned"
      /\ results = <<>>
      /\ "status" \in DOMAIN returned
      /\ returned.status = "error"
      /\ returned.error \in {PyStr("connection already closed"),
                                PyStr("EXPLAIN failed: connection already closed")}
      /\ \A j \in 1..Len(server.statements) : server.statements[j] \in SetTimeoutStatements
      /\ server.cursors <= Len(server.statements)

\* A call in detailed mode after disconnect(), which the driver would have
\* answered with rows had the session been open.
C25_Witness ==
    /\ pc = "returned"
    /\ connection = "closed"
    /\ argv.mode = "detailed"
    /\ Len(calls) = 1
    /\ calls[1].fail = "none"
    /\ calls[1].rows # PyList(<<>>)
    /\ returned.status = "error"

====
